---- MODULE Spec2Model ----
(***************************************************************************)
(* Cycle-level model of the m6502 core (src/core.py) and its ALU           *)
(* (src/alu8.py).  One clock edge of the ph1 domain is one step.  The      *)
(* statements an nMigen module adds later override the earlier ones, so    *)
(* every handler is an update map and the maps are merged in the order     *)
(* in which Core.elaborate adds them.                                      *)
(***************************************************************************)
EXTENDS Integers, Sequences, FiniteSets, TLC

VARIABLES a, x, y, sp, pc, tmp8, tmp16, instr, Addr, Dout, RW,
          reset_state, cycle, sr_flags,
          end_instr_flag, mem,
          pre, cycle_records, instr_count,
          alu

vars == <<a, x, y, sp, pc, tmp8, tmp16, instr, Addr, Dout, RW,
          reset_state, cycle, sr_flags,
          end_instr_flag, mem,
          pre, cycle_records, instr_count,
          alu>>

(***************************************************************************)
(* Bit-vector helpers (nMigen slices, Cat, truncation on assignment).      *)
(***************************************************************************)
Pow2(n) == 2 ^ n

Bit(v, i) == (v \div Pow2(i)) % 2

SetBit(v, i, b) == v - Bit(v, i) * Pow2(i) + b * Pow2(i)

Lo(v) == v % 256

Hi(v) == (v \div 256) % 256

Cat16(lo, hi) == (lo % 256) + 256 * (hi % 256)

Xor(p, q) == (p + q) % 2

Or(p, q) == IF p + q > 0 THEN 1 ELSE 0

B2N(b) == IF b THEN 1 ELSE 0

RECURSIVE BitOp(_, _, _, _)
BitOp(op, p, q, n) ==
  IF n = 0 THEN 0
  ELSE LET bp == p % 2
           bq == q % 2
           r  == CASE op = "or"  -> Or(bp, bq)
                   [] op = "and" -> bp * bq
                   [] op = "xor" -> Xor(bp, bq)
       IN r + 2 * BitOp(op, p \div 2, q \div 2, n - 1)

(***************************************************************************)
(* consts.py                                                               *)
(***************************************************************************)
IMMEDIATE == 0
ZEROPAGE == 1
ZEROPAGE_X == 2
ABSOLUTE == 3
ABSOLUTE_X == 4
ABSOLUTE_Y == 5
INDIRECT_X == 6
INDIRECT_Y == 7

\* core.py and the formal checks name the zeropage-indexed member ZEROPAGE_IND;
\* the table of consts.py calls that member ZEROPAGE_X.
ZEROPAGE_IND == ZEROPAGE_X

FlagN == 7
FlagV == 6
Flag5 == 5
FlagB == 4
FlagD == 3
FlagI == 2
FlagZ == 1
FlagC == 0

(***************************************************************************)
(* alu8.py: ALU8.elaborate.  Combinational: (func, input1, input2,         *)
(* sr_flags) -> (output, _sr_flags).                                       *)
(***************************************************************************)
SetNZ(flags, out) == SetBit(SetBit(flags, FlagN, Bit(out, 7)), FlagZ, B2N(out = 0))

\* res_lo, res_hi as 5-bit sums; half_carry and carry_out combine the binary
\* carry with the decimal one
AluHalfCarry(res_lo, decimal) ==
  Or(Bit(res_lo, 4), decimal * B2N(((res_lo \div 2) % 8) >= 5))

\* the carry out is the binary carry of the high nibble alone
AluCarryOut_binary(res_hi, decimal) == Bit(res_hi, 4)

AluCarryOut(res_hi, decimal) ==
  Or(Bit(res_hi, 4), decimal * B2N(((res_hi \div 2) % 8) >= 5))

AluAdjust(result, decimal, adj, hc_sel, co_sel) ==
  (((result % 16) + (IF decimal * hc_sel = 1 THEN adj ELSE 0)) % 16)
  + 16 * ((((result \div 16) % 16) + (IF decimal * co_sel = 1 THEN adj ELSE 0)) % 16)

\* V is the XOR of the operand signs and the result sign, without the carry
AluArithFlags_no_carry(flags, input1, in2, result, carry_out) ==
  SetBit(SetBit(SetBit(SetBit(flags, FlagN, Bit(result, 7)),
                       FlagZ, B2N(result % 256 = 0)),
                FlagV, Xor(Xor(Bit(input1, 7), Bit(in2, 7)), Bit(result, 7))),
         FlagC, carry_out)

AluArithFlags(flags, input1, in2, result, carry_out) ==
  SetBit(SetBit(SetBit(SetBit(flags, FlagN, Bit(result, 7)),
                       FlagZ, B2N(result % 256 = 0)),
                FlagV, Xor(Xor(Bit(input1, 7), Bit(in2, 7)),
                           Xor(carry_out, Bit(result, 7)))),
         FlagC, carry_out)

AluArithOut(input1, in2, flags, adj, isSub, decimal, half_carry, result, carry_out) ==
  [output |-> AluAdjust(result, decimal, adj,
                        IF isSub THEN 1 - half_carry ELSE half_carry,
                        IF isSub THEN 1 - carry_out ELSE carry_out),
   flags |-> AluArithFlags(flags, input1, in2, result, carry_out)]

AluArithHi(input1, in2, flags, adj, isSub, decimal, res_lo, half_carry, res_hi) ==
  AluArithOut(input1, in2, flags, adj, isSub, decimal, half_carry,
              (res_lo % 16) + 16 * res_hi, AluCarryOut(res_hi, decimal))

\* the high nibbles are added without the half carry
AluArithLo_no_half_carry(input1, in2, flags, adj, isSub, decimal, res_lo, half_carry) ==
  AluArithHi(input1, in2, flags, adj, isSub, decimal, res_lo, half_carry,
             ((input1 \div 16) % 16) + ((in2 \div 16) % 16))

AluArithLo(input1, in2, flags, adj, isSub, decimal, res_lo, half_carry) ==
  AluArithHi(input1, in2, flags, adj, isSub, decimal, res_lo, half_carry,
             ((input1 \div 16) % 16) + ((in2 \div 16) % 16) + half_carry)

AluArith(input1, in2, flags, adj, isSub, decimal, res_lo) ==
  AluArithLo(input1, in2, flags, adj, isSub, decimal, res_lo,
             AluHalfCarry(res_lo, decimal))

\* the low nibbles are added without the carry flag
AluAddSub_no_carry(input1, in2, flags, adj, isSub) ==
  AluArith(input1, in2, flags, adj, isSub, Bit(flags, FlagD),
           (input1 % 16) + (in2 % 16))

\* ADC: in2 = input2, adj = 6; SBC: in2 = ~input2, adj = 10 applied when no carry
AluAddSub(input1, in2, flags, adj, isSub) ==
  AluArith(input1, in2, flags, adj, isSub, Bit(flags, FlagD),
           (input1 % 16) + (in2 % 16) + Bit(flags, FlagC))

AluSUBOut(flags, out, carry8) ==
  [output |-> out, flags |-> SetBit(SetNZ(flags, out), FlagC, 1 - carry8)]

AluSUBHi(input1, input2, flags, sum0_6, sum7) ==
  AluSUBOut(flags, (sum0_6 % 128) + 128 * (sum7 % 2), Bit(sum7, 1))

AluSUBLo(input1, input2, flags, sum0_6) ==
  AluSUBHi(input1, input2, flags, sum0_6,
           Bit(input1, 7) + (1 - Bit(input2, 7)) + Bit(sum0_6, 7))

AluSUB(input1, input2, flags) ==
  AluSUBLo(input1, input2, flags, (input1 % 128) + (127 - (input2 % 128)) + 1)

\* the logic functions clear the carry flag
AluLogic_clears_carry(op, input1, input2, flags, o) ==
  [output |-> o, flags |-> SetBit(SetNZ(flags, o), FlagC, 0)]

AluLogic(op, input1, input2, flags, o) == [output |-> o, flags |-> SetNZ(flags, o)]

\* the shifts leave the carry flag as it was
AluShift_keep_carry(flags, o, n, c) ==
  [output |-> o,
   flags |-> SetBit(SetBit(flags, FlagN, n), FlagZ, B2N(o = 0))]

AluShift(flags, o, n, c) ==
  [output |-> o,
   flags |-> SetBit(SetBit(SetBit(flags, FlagN, n), FlagZ, B2N(o = 0)), FlagC, c)]

ALU8(func, input1, input2, flags) ==
  CASE func = "NONE" -> [output |-> 0, flags |-> flags]
    [] func = "LD"   -> [output |-> input2, flags |-> SetNZ(flags, input2)]
    [] func = "TR"   -> [output |-> input2, flags |-> flags]
    [] func = "LDSR" -> [output |-> 0, flags |-> input2]
    [] func = "ADC"  -> AluAddSub(input1, input2, flags, 6, FALSE)
    [] func = "SBC"  -> AluAddSub(input1, 255 - input2, flags, 10, TRUE)
    [] func = "SUB"  -> AluSUB(input1, input2, flags)
    [] func = "ORA"  -> AluLogic(func, input1, input2, flags, BitOp("or", input1, input2, 8))
    [] func = "AND"  -> AluLogic(func, input1, input2, flags, BitOp("and", input1, input2, 8))
    [] func = "EOR"  -> AluLogic(func, input1, input2, flags, BitOp("xor", input1, input2, 8))
    [] func = "CLC"  -> [output |-> 0, flags |-> SetBit(flags, FlagC, 0)]
    [] func = "SEC"  -> [output |-> 0, flags |-> SetBit(flags, FlagC, 1)]
    [] func = "CLD"  -> [output |-> 0, flags |-> SetBit(flags, FlagD, 0)]
    [] func = "SED"  -> [output |-> 0, flags |-> SetBit(flags, FlagD, 1)]
    [] func = "CLI"  -> [output |-> 0, flags |-> SetBit(flags, FlagI, 0)]
    [] func = "SEI"  -> [output |-> 0, flags |-> SetBit(flags, FlagI, 1)]
    [] func = "CLV"  -> [output |-> 0, flags |-> SetBit(flags, FlagV, 0)]
    [] func = "INC"  -> AluLogic(func, input1, input2, flags, (input1 + 1) % 256)
    [] func = "DEC"  -> AluLogic(func, input1, input2, flags, (input1 + 255) % 256)
    [] func = "ASL"  -> AluShift(flags, (input1 * 2) % 256,
                                 Bit(input1, 6), Bit(input1, 7))
    [] func = "LSR"  -> AluShift(flags, input1 \div 2, 0, Bit(input1, 0))
    [] func = "ROL"  -> AluShift(flags, ((input1 * 2) % 256) + Bit(flags, FlagC),
                                 Bit(input1, 6), Bit(input1, 7))
    [] func = "ROR"  -> AluShift(flags, (input1 \div 2) + 128 * Bit(flags, FlagC),
                                 Bit(flags, FlagC), Bit(input1, 0))

(***************************************************************************)
(* core.py: update maps.  A map gives the value a handler assigns to each  *)
(* register at this edge; Later(u2, u1) is u1 followed by u2.              *)
(***************************************************************************)
Nothing == [k \in {} |-> 0]

Later(u2, u1) == u2 @@ u1

Inc16(v) == (v + 1) % 65536

Stack(v) == Cat16(v, 1)

end_instr(addr) == ("end_instr_flag" :> 1) @@ ("end_instr_addr" :> addr)

Read(addr) == ("Addr" :> addr) @@ ("RW" :> 1)

Write(addr, data) == ("Addr" :> addr) @@ ("RW" :> 0) @@ ("Dout" :> data)

\* The handler drives src8_1, src8_2 and alu8_func; dest names the register that
\* is assigned alu8 at this edge ("none" when the output is not stored).
AluReq(func, in1, in2, dest) ==
  ("alu8_func" :> func) @@ ("src8_1" :> in1) @@ ("src8_2" :> in2) @@ ("alu8_dest" :> dest)

AluStore(s, func, output, in2, store) ==
  AluReq(func, s[output], in2, IF store THEN output ELSE "none")

fetch(s, din) ==
  ("instr" :> din) @@ ("RW" :> 1) @@ ("pc" :> Inc16(s.pc)) @@ ("Addr" :> Inc16(s.pc))

\* the vector bytes assembled high byte first
reset_handler_swapped(s, din) ==
  CASE s.reset_state = 0 -> Read(65534) @@ ("reset_state" :> 1)
    [] s.reset_state = 1 -> Read(65535) @@ ("tmp8" :> din) @@ ("reset_state" :> 2)
    [] s.reset_state = 2 -> ("reset_state" :> 3) @@ end_instr(Cat16(din, s.tmp8))
    [] OTHER -> Nothing

reset_handler(s, din) ==
  CASE s.reset_state = 0 -> Read(65534) @@ ("reset_state" :> 1)
    [] s.reset_state = 1 -> Read(65535) @@ ("tmp8" :> din) @@ ("reset_state" :> 2)
    [] s.reset_state = 2 -> ("reset_state" :> 3) @@ end_instr(Cat16(s.tmp8, din))
    [] OTHER -> Nothing

mode_immediate(s, din) ==
  IF s.cycle = 1
  THEN ("tmp8" :> din) @@ ("pc" :> Inc16(s.pc)) @@ Read(Inc16(s.pc))
  ELSE Nothing

mode_immediate_operand(s, din) == IF s.cycle = 1 THEN din ELSE s.tmp8

mode_zeropage(s, din) ==
  IF s.cycle = 1
  THEN ("tmp16" :> din) @@ ("pc" :> Inc16(s.pc)) @@ Read(Inc16(s.pc))
  ELSE Nothing

mode_zeropage_operand(s, din) == IF s.cycle = 1 THEN din ELSE s.tmp16

mode_absolute(s, din) ==
  CASE s.cycle = 1 -> ("tmp16" :> Cat16(din, Hi(s.tmp16))) @@ ("pc" :> Inc16(s.pc))
                      @@ Read(Inc16(s.pc))
    [] s.cycle = 2 -> ("tmp16" :> Cat16(Lo(s.tmp16), din)) @@ ("pc" :> Inc16(s.pc))
    [] OTHER -> Nothing

mode_absolute_operand(s, din) ==
  IF s.cycle = 2 THEN Cat16(Lo(s.tmp16), din) ELSE s.tmp16

mode_indirect_x(s, din) ==
  LET addr_ind == (din + s.x) % 256
  IN CASE s.cycle = 1 -> ("tmp8" :> addr_ind) @@ ("pc" :> Inc16(s.pc))
                         @@ Read(Cat16(addr_ind, 0))
       [] s.cycle = 2 -> ("tmp16" :> Cat16(din, Hi(s.tmp16)))
                         @@ Read(Cat16((s.tmp8 + 1) % 256, 0))
       [] s.cycle = 3 -> ("tmp16" :> Cat16(Lo(s.tmp16), din))
                         @@ Read(Cat16(Lo(s.tmp16), din))
       [] s.cycle = 4 -> ("tmp8" :> din)
       [] OTHER -> Nothing

mode_indirect_x_value(s, din) == IF s.cycle = 4 THEN din ELSE s.tmp8

mode_indirect_y(s, din) ==
  LET sum9     == Lo(s.tmp16) + s.y
      overflow == Bit(sum9, 8)
  IN CASE s.cycle = 1 -> ("tmp8" :> din) @@ ("pc" :> Inc16(s.pc)) @@ Read(Cat16(din, 0))
       [] s.cycle = 2 -> ("tmp16" :> Cat16(din, Hi(s.tmp16)))
                         @@ Read(Cat16((s.tmp8 + 1) % 256, 0))
       [] s.cycle = 3 -> ("tmp16" :> Cat16(Lo(s.tmp16), din))
                         @@ Read(Cat16(sum9 % 256, din))
       [] s.cycle = 4 -> IF overflow = 1
                         THEN Read(Cat16(Lo(s.tmp16), Hi(s.tmp16) + overflow))
                         ELSE end_instr(s.pc)
       [] OTHER -> Nothing

mode_absolute_indexed(s, din, func, index, output, store) ==
  LET sum9     == Lo(s.tmp16) + index
      addr_ind == sum9 % 256
      overflow == Bit(sum9, 8)
  IN CASE s.cycle = 1 -> ("tmp16" :> Cat16(din, Hi(s.tmp16))) @@ ("pc" :> Inc16(s.pc))
                         @@ Read(Inc16(s.pc))
       [] s.cycle = 2 -> ("tmp16" :> Cat16(Lo(s.tmp16), din)) @@ ("pc" :> Inc16(s.pc))
                         @@ Read(Cat16(addr_ind, din))
       [] s.cycle = 3 -> IF overflow = 1
                         THEN ("tmp16" :> Cat16(Lo(s.tmp16), Hi(s.tmp16) + 1))
                              @@ Read(Cat16(addr_ind, Hi(s.tmp16) + 1))
                         ELSE Later(end_instr(s.pc), AluStore(s, func, output, din, store))
       [] s.cycle = 4 -> Later(end_instr(s.pc), AluStore(s, func, output, din, store))
       [] OTHER -> Nothing

\* the high byte of the target is read at pointer + 1, carrying into the page
mode_indirect_carry(s, din) ==
  LET pointer == mode_absolute_operand(s, din)
      own == CASE s.cycle = 2 -> Read(pointer)
               [] s.cycle = 3 -> ("pc" :> Cat16(din, Hi(s.pc)))
                                 @@ Read(Inc16(pointer))
               [] s.cycle = 4 -> ("pc" :> Cat16(Lo(s.pc), din))
               [] OTHER -> Nothing
  IN Later(own, mode_absolute(s, din))

mode_indirect(s, din) ==
  LET pointer == mode_absolute_operand(s, din)
      own == CASE s.cycle = 2 -> Read(pointer)
               [] s.cycle = 3 -> ("pc" :> Cat16(din, Hi(s.pc)))
                                 @@ Read(Cat16((Lo(pointer) + 1) % 256, Hi(pointer)))
               [] s.cycle = 4 -> ("pc" :> Cat16(Lo(s.pc), din))
               [] OTHER -> Nothing
  IN Later(own, mode_absolute(s, din))

mode_indirect_operand(s, din) == IF s.cycle = 4 THEN Cat16(Lo(s.pc), din) ELSE s.pc

(***************************************************************************)
(* core.py: instruction handlers.                                          *)
(***************************************************************************)
NOP(s, din) == end_instr(s.pc)

\* BRK pushes the status byte as held
BRK_plain_status(s, din) ==
  CASE s.cycle = 1 -> ("pc" :> Inc16(s.pc)) @@ Write(Stack(s.sp), Hi(s.pc + 1))
    [] s.cycle = 2 -> Write(Stack(s.sp + 255), Lo(s.pc))
    [] s.cycle = 3 -> ("sp" :> (s.sp + 253) % 256)
                      @@ Write(Stack(s.sp + 254), s.sr_flags)
    [] s.cycle = 4 -> Read(65534)
    [] s.cycle = 5 -> ("pc" :> Cat16(din, Hi(s.pc))) @@ Read(65535)
    [] s.cycle = 6 -> Later(end_instr(Cat16(Lo(s.pc), din)), "pc" :> Cat16(Lo(s.pc), din))
    [] OTHER -> Nothing

BRK(s, din) ==
  CASE s.cycle = 1 -> ("pc" :> Inc16(s.pc)) @@ Write(Stack(s.sp), Hi(s.pc + 1))
    [] s.cycle = 2 -> Write(Stack(s.sp + 255), Lo(s.pc))
    [] s.cycle = 3 -> ("sp" :> (s.sp + 253) % 256)
                      @@ Write(Stack(s.sp + 254), BitOp("or", s.sr_flags, 48, 8))
    [] s.cycle = 4 -> Read(65534)
    [] s.cycle = 5 -> ("pc" :> Cat16(din, Hi(s.pc))) @@ Read(65535)
    [] s.cycle = 6 -> Later(end_instr(Cat16(Lo(s.pc), din)), "pc" :> Cat16(Lo(s.pc), din))
    [] OTHER -> Nothing

\* RTI pops PCL first and the status second
RTI_pcl_first(s, din) ==
  CASE s.cycle = 1 -> Read(Stack(s.sp)) @@ ("pc" :> Inc16(s.pc))
    [] s.cycle = 2 -> Read(Stack(s.sp + 1))
    [] s.cycle = 3 -> ("pc" :> Cat16(din, Hi(s.pc))) @@ Read(Stack(s.sp + 2))
    [] s.cycle = 4 -> AluReq("LDSR", 0, din, "none") @@ ("sp" :> (s.sp + 3) % 256)
                      @@ Read(Stack(s.sp + 3))
    [] s.cycle = 5 -> Later(end_instr(Cat16(Lo(s.pc), din)), "pc" :> Cat16(Lo(s.pc), din))
    [] OTHER -> Nothing

\* the high byte of PC is taken one cycle early and RTI ends there
RTI_short(s, din) ==
  CASE s.cycle = 1 -> Read(Stack(s.sp)) @@ ("pc" :> Inc16(s.pc))
    [] s.cycle = 2 -> Read(Stack(s.sp + 1))
    [] s.cycle = 3 -> AluReq("LDSR", 0, din, "none") @@ Read(Stack(s.sp + 2))
    [] s.cycle = 4 -> Later(end_instr(Cat16(din, Hi(s.pc))),
                            ("pc" :> Cat16(din, Hi(s.pc))) @@ ("sp" :> (s.sp + 3) % 256))
    [] OTHER -> Nothing

RTI(s, din) ==
  CASE s.cycle = 1 -> Read(Stack(s.sp)) @@ ("pc" :> Inc16(s.pc))
    [] s.cycle = 2 -> Read(Stack(s.sp + 1))
    [] s.cycle = 3 -> AluReq("LDSR", 0, din, "none") @@ Read(Stack(s.sp + 2))
    [] s.cycle = 4 -> ("pc" :> Cat16(din, Hi(s.pc))) @@ ("sp" :> (s.sp + 3) % 256)
                      @@ Read(Stack(s.sp + 3))
    [] s.cycle = 5 -> Later(end_instr(Cat16(Lo(s.pc), din)), "pc" :> Cat16(Lo(s.pc), din))
    [] OTHER -> Nothing

\* JSR pushes the low byte of PC first
JSR_low_first(s, din) ==
  CASE s.cycle = 1 -> ("pc" :> Inc16(s.pc)) @@ ("tmp16" :> Cat16(din, Hi(s.tmp16)))
                      @@ Read(Inc16(s.pc))
    [] s.cycle = 2 -> ("tmp16" :> Cat16(Lo(s.tmp16), din)) @@ Read(Stack(s.sp))
    [] s.cycle = 3 -> Write(Stack(s.sp), Lo(s.pc)) @@ ("sp" :> (s.sp + 255) % 256)
    [] s.cycle = 4 -> Write(Stack(s.sp), Hi(s.pc)) @@ ("sp" :> (s.sp + 255) % 256)
                      @@ ("pc" :> s.tmp16)
    [] s.cycle = 5 -> end_instr(s.pc)
    [] OTHER -> Nothing

JSR(s, din) ==
  CASE s.cycle = 1 -> ("pc" :> Inc16(s.pc)) @@ ("tmp16" :> Cat16(din, Hi(s.tmp16)))
                      @@ Read(Inc16(s.pc))
    [] s.cycle = 2 -> ("tmp16" :> Cat16(Lo(s.tmp16), din)) @@ Read(Stack(s.sp))
    [] s.cycle = 3 -> Write(Stack(s.sp), Hi(s.pc)) @@ ("sp" :> (s.sp + 255) % 256)
    [] s.cycle = 4 -> Write(Stack(s.sp), Lo(s.pc)) @@ ("sp" :> (s.sp + 255) % 256)
                      @@ ("pc" :> s.tmp16)
    [] s.cycle = 5 -> end_instr(s.pc)
    [] OTHER -> Nothing

\* RTS continues at the popped address plus one
RTS_plus1(s, din) ==
  CASE s.cycle = 1 -> Read(Stack(s.sp)) @@ ("pc" :> Inc16(s.pc))
    [] s.cycle = 2 -> Read(Stack(s.sp + 1))
    [] s.cycle = 3 -> ("pc" :> Cat16(din, Hi(s.pc))) @@ ("sp" :> (s.sp + 2) % 256)
                      @@ Read(Stack(s.sp + 2))
    [] s.cycle = 4 -> ("pc" :> Cat16(Lo(s.pc), din))
    [] s.cycle = 5 -> end_instr(Inc16(s.pc))
    [] OTHER -> Nothing

RTS(s, din) ==
  CASE s.cycle = 1 -> Read(Stack(s.sp)) @@ ("pc" :> Inc16(s.pc))
    [] s.cycle = 2 -> Read(Stack(s.sp + 1))
    [] s.cycle = 3 -> ("pc" :> Cat16(din, Hi(s.pc))) @@ ("sp" :> (s.sp + 2) % 256)
                      @@ Read(Stack(s.sp + 2))
    [] s.cycle = 4 -> ("pc" :> Cat16(Lo(s.pc), din))
    [] s.cycle = 5 -> end_instr(s.pc)
    [] OTHER -> Nothing

\* the push decrements SP before the write
PUSH_below_sp(s, din, register) ==
  CASE s.cycle = 1 -> Write(Stack(s.sp + 255), register) @@ ("sp" :> (s.sp + 255) % 256)
    [] s.cycle = 2 -> end_instr(s.pc)
    [] OTHER -> Nothing

\* register is the value pushed: a (PHA) or sr_flags (PHP)
PUSH(s, din, register) ==
  CASE s.cycle = 1 -> Write(Stack(s.sp), register) @@ ("sp" :> (s.sp + 255) % 256)
    [] s.cycle = 2 -> end_instr(s.pc)
    [] OTHER -> Nothing

\* the pull reads the stack at SP, before the increment
PULL_at_sp(s, din, func, register) ==
  CASE s.cycle = 2 -> Read(Stack(s.sp)) @@ ("sp" :> (s.sp + 1) % 256)
    [] s.cycle = 3 -> Later(end_instr(s.pc), AluReq(func, 0, din, register))
    [] OTHER -> Nothing

\* register is "a" (PLA) or "none" (PLP)
PULL(s, din, func, register) ==
  CASE s.cycle = 2 -> Read(Stack(s.sp + 1)) @@ ("sp" :> (s.sp + 1) % 256)
    [] s.cycle = 3 -> Later(end_instr(s.pc), AluReq(func, 0, din, register))
    [] OTHER -> Nothing

INC_DEC_IND(s, din, func, index) ==
  IF s.cycle = 1
  THEN Later(end_instr(s.pc), AluReq(func, s[index], 0, index))
  ELSE Nothing

\* every transfer copies the accumulator
TR_from_a(s, din, func, input, output) ==
  IF s.cycle = 1
  THEN Later(end_instr(s.pc), AluStore(s, func, output, s.a, TRUE))
  ELSE Nothing

TR(s, din, func, input, output) ==
  IF s.cycle = 1
  THEN Later(end_instr(s.pc), AluStore(s, func, output, s[input], TRUE))
  ELSE Nothing

ALU_IMP(s, din, func, output, store) ==
  IF s.cycle = 1
  THEN Later(end_instr(Inc16(s.pc)),
             Later(AluStore(s, func, output, mode_immediate_operand(s, din), store),
                   mode_immediate(s, din)))
  ELSE Nothing

\* bit 5 of the opcode selects the clearing function
CL_SE_inverted(s, din, setf, clrf) ==
  IF s.cycle = 1
  THEN Later(end_instr(s.pc),
             AluReq(IF Bit(s.instr, 5) = 1 THEN clrf ELSE setf, 0, 0, "none"))
  ELSE Nothing

CL_SE(s, din, setf, clrf) ==
  IF s.cycle = 1
  THEN Later(end_instr(s.pc),
             AluReq(IF Bit(s.instr, 5) = 1 THEN setf ELSE clrf, 0, 0, "none"))
  ELSE Nothing

CL_SE_C(s, din) == CL_SE(s, din, "SEC", "CLC")

CL_SE_D(s, din) == CL_SE(s, din, "SED", "CLD")

CL_SE_I(s, din) == CL_SE(s, din, "SEI", "CLI")

CLV(s, din) ==
  IF s.cycle = 1
  THEN Later(end_instr(s.pc), AluReq("CLV", 0, 0, "none"))
  ELSE Nothing

mode_a(s) == (s.instr \div 32) % 8

mode_b(s) == (s.instr \div 4) % 8

mode_c(s) == s.instr % 4

JMP(s, din) ==
  CASE mode_a(s) = 2 ->
         Later(IF s.cycle = 2 THEN end_instr(mode_absolute_operand(s, din)) ELSE Nothing,
               mode_absolute(s, din))
    [] mode_a(s) = 3 ->
         Later(IF s.cycle = 4 THEN end_instr(mode_indirect_operand(s, din)) ELSE Nothing,
               mode_indirect(s, din))
    [] OTHER -> Nothing

\* BNE and BEQ test the carry flag
branch_cond_carry(s) ==
  CASE mode_a(s) = 0 -> Bit(s.sr_flags, FlagN) = 0
    [] mode_a(s) = 1 -> Bit(s.sr_flags, FlagN) = 1
    [] mode_a(s) = 2 -> Bit(s.sr_flags, FlagV) = 0
    [] mode_a(s) = 3 -> Bit(s.sr_flags, FlagV) = 1
    [] mode_a(s) = 4 -> Bit(s.sr_flags, FlagC) = 0
    [] mode_a(s) = 5 -> Bit(s.sr_flags, FlagC) = 1
    [] mode_a(s) = 6 -> Bit(s.sr_flags, FlagC) = 0
    [] mode_a(s) = 7 -> Bit(s.sr_flags, FlagC) = 1

branch_cond(s) ==
  CASE mode_a(s) = 0 -> Bit(s.sr_flags, FlagN) = 0
    [] mode_a(s) = 1 -> Bit(s.sr_flags, FlagN) = 1
    [] mode_a(s) = 2 -> Bit(s.sr_flags, FlagV) = 0
    [] mode_a(s) = 3 -> Bit(s.sr_flags, FlagV) = 1
    [] mode_a(s) = 4 -> Bit(s.sr_flags, FlagC) = 0
    [] mode_a(s) = 5 -> Bit(s.sr_flags, FlagC) = 1
    [] mode_a(s) = 6 -> Bit(s.sr_flags, FlagZ) = 0
    [] mode_a(s) = 7 -> Bit(s.sr_flags, FlagZ) = 1

BR(s, din) ==
  LET operand   == mode_immediate_operand(s, din)
      sum9      == Lo(s.pc) + operand
      backwards == Bit(operand, 7)
      co        == Bit(sum9, 8)
      crossed   == Xor(co, backwards)
      own == CASE s.cycle = 2 -> "tmp16" :> Cat16(sum9 % 256, Hi(s.pc))
               [] s.cycle = 3 ->
                    IF branch_cond(s)
                    THEN IF crossed = 1
                         THEN "tmp16" :> Cat16(Lo(s.tmp16),
                                               IF backwards = 1
                                               THEN Hi(s.tmp16) + 256 - crossed
                                               ELSE Hi(s.tmp16) + crossed)
                         ELSE end_instr(s.tmp16)
                    ELSE end_instr(s.pc)
               [] s.cycle = 4 -> end_instr(s.tmp16)
               [] OTHER -> Nothing
  IN Later(own, mode_immediate(s, din))

ST(s, din) ==
  LET index  == CASE mode_c(s) = 1 -> s.a
                  [] mode_c(s) = 2 -> s.x
                  [] mode_c(s) = 0 -> s.y
                  [] OTHER -> s.a
      zp_ind == IF mode_c(s) = 2 THEN s.y ELSE s.x
      sumx   == Lo(s.tmp16) + s.x
      sumy   == Lo(s.tmp16) + s.y
  IN CASE mode_b(s) = ZEROPAGE ->
            Later(CASE s.cycle = 1 -> Write(mode_zeropage_operand(s, din), index)
                    [] s.cycle = 2 -> end_instr(s.pc)
                    [] OTHER -> Nothing,
                  mode_zeropage(s, din))
       [] mode_b(s) = ZEROPAGE_IND ->
            CASE s.cycle = 1 -> ("tmp8" :> din) @@ ("pc" :> Inc16(s.pc)) @@ Read(din)
              [] s.cycle = 2 -> Write(Cat16(s.tmp8 + zp_ind, 0), index)
              [] s.cycle = 3 -> end_instr(s.pc)
              [] OTHER -> Nothing
       [] mode_b(s) = ABSOLUTE ->
            Later(CASE s.cycle = 2 -> Write(mode_absolute_operand(s, din), index)
                    [] s.cycle = 3 -> end_instr(s.pc)
                    [] OTHER -> Nothing,
                  mode_absolute(s, din))
       [] mode_b(s) = ABSOLUTE_X ->
            Later(CASE s.cycle = 2 -> Read(Cat16(sumx % 256, din))
                    [] s.cycle = 3 -> Write(Cat16(sumx % 256, Hi(s.tmp16) + Bit(sumx, 8)), s.a)
                    [] s.cycle = 4 -> end_instr(s.pc)
                    [] OTHER -> Nothing,
                  mode_absolute(s, din))
       [] mode_b(s) = ABSOLUTE_Y ->
            Later(CASE s.cycle = 2 -> Read(Cat16(sumy % 256, din))
                    [] s.cycle = 3 -> Write(Cat16(sumy % 256, Hi(s.tmp16) + Bit(sumy, 8)), s.a)
                    [] s.cycle = 4 -> end_instr(s.pc)
                    [] OTHER -> Nothing,
                  mode_absolute(s, din))
       [] mode_b(s) = INDIRECT_X ->
            Later(CASE s.cycle = 4 -> Write(s.tmp16, s.a)
                    [] s.cycle = 5 -> end_instr(s.pc)
                    [] OTHER -> Nothing,
                  mode_indirect_x(s, din))
       [] mode_b(s) = INDIRECT_Y ->
            CASE s.cycle = 1 -> ("tmp8" :> din) @@ ("pc" :> Inc16(s.pc)) @@ Read(Cat16(din, 0))
              [] s.cycle = 2 -> ("tmp16" :> Cat16(din, Hi(s.tmp16)))
                                @@ Read(Cat16(s.tmp8 + 1, 0))
              [] s.cycle = 3 -> ("tmp16" :> Cat16(Lo(s.tmp16), din))
                                @@ Read(Cat16(sumy % 256, din))
              [] s.cycle = 4 -> Write(Cat16(sumy % 256, Hi(s.tmp16) + Bit(sumy, 8)), s.a)
              [] s.cycle = 5 -> end_instr(s.pc)
              [] OTHER -> Nothing
       [] OTHER -> Nothing

\* x_index is the index register's value, output the destination register's name
ALU(s, din, func, x_index, output, store) ==
  CASE mode_b(s) = INDIRECT_X ->
         Later(IF s.cycle = 5
               THEN Later(end_instr(s.pc),
                          AluStore(s, func, output, mode_indirect_x_value(s, din), store))
               ELSE Nothing,
               mode_indirect_x(s, din))
    [] mode_b(s) = ZEROPAGE ->
         Later(CASE s.cycle = 1 -> Read(mode_zeropage_operand(s, din))
                 [] s.cycle = 2 -> Later(end_instr(s.pc), AluStore(s, func, output, din, store))
                 [] OTHER -> Nothing,
               mode_zeropage(s, din))
    [] mode_b(s) = IMMEDIATE ->
         Later(IF s.cycle = 1
               THEN Later(end_instr(Inc16(s.pc)),
                          AluStore(s, func, output, mode_immediate_operand(s, din), store))
               ELSE Nothing,
               mode_immediate(s, din))
    [] mode_b(s) = ABSOLUTE ->
         Later(CASE s.cycle = 2 -> Read(mode_absolute_operand(s, din))
                 [] s.cycle = 3 -> Later(end_instr(s.pc), AluStore(s, func, output, din, store))
                 [] OTHER -> Nothing,
               mode_absolute(s, din))
    [] mode_b(s) = INDIRECT_Y ->
         Later(IF s.cycle = 4 \/ s.cycle = 5
               THEN AluStore(s, func, output, din, store)
               ELSE Nothing,
               mode_indirect_y(s, din))
    [] mode_b(s) = ZEROPAGE_IND ->
         CASE s.cycle = 1 -> ("pc" :> Inc16(s.pc)) @@ ("tmp8" :> din) @@ Read(Cat16(din, 0))
           [] s.cycle = 2 -> Read(Cat16(s.tmp8 + x_index, 0))
           [] s.cycle = 3 -> Later(end_instr(s.pc), AluStore(s, func, output, din, store))
           [] OTHER -> Nothing
    [] mode_b(s) = ABSOLUTE_Y ->
         mode_absolute_indexed(s, din, func, s.y, output, store)
    [] mode_b(s) = ABSOLUTE_X ->
         mode_absolute_indexed(s, din, func, x_index, output, store)

ALU2(s, din, func) ==
  LET zp_ind   == (Lo(s.tmp16) + s.x) % 256
      sum9     == Lo(s.tmp16) + s.x
      overflow == Bit(sum9, 8)
  IN CASE mode_b(s) = IMMEDIATE ->
            IF s.cycle = 1
            THEN Later(end_instr(s.pc), AluReq(func, s.a, 0, "a"))
            ELSE Nothing
       [] mode_b(s) = ZEROPAGE ->
            Later(CASE s.cycle = 1 -> Read(mode_zeropage_operand(s, din))
                    [] s.cycle = 2 -> ("tmp8" :> din) @@ Write(s.tmp16, din)
                    [] s.cycle = 3 -> AluReq(func, s.tmp8, 0, "Dout")
                                      @@ ("RW" :> 0) @@ ("Addr" :> s.tmp16)
                    [] s.cycle = 4 -> end_instr(s.pc)
                    [] OTHER -> Nothing,
                  mode_zeropage(s, din))
       [] mode_b(s) = ZEROPAGE_IND ->
            CASE s.cycle = 1 -> ("tmp16" :> din) @@ Read(Cat16(din, 0))
              [] s.cycle = 2 -> ("tmp16" :> Cat16(zp_ind, Hi(s.tmp16))) @@ Read(Cat16(zp_ind, 0))
              [] s.cycle = 3 -> ("tmp8" :> din) @@ ("RW" :> 0) @@ ("Addr" :> s.tmp16)
              [] s.cycle = 4 -> AluReq(func, s.tmp8, 0, "Dout")
                                @@ ("RW" :> 0) @@ ("Addr" :> s.tmp16)
              [] s.cycle = 5 -> end_instr(s.pc)
              [] OTHER -> Nothing
       [] mode_b(s) = ABSOLUTE ->
            Later(CASE s.cycle = 2 -> Read(mode_absolute_operand(s, din))
                    [] s.cycle = 3 -> ("tmp8" :> din) @@ Read(s.tmp16) @@ ("Dout" :> din)
                    [] s.cycle = 4 -> AluReq(func, s.tmp8, 0, "Dout")
                                      @@ ("RW" :> 0) @@ ("Addr" :> s.tmp16)
                    [] s.cycle = 5 -> end_instr(s.pc)
                    [] OTHER -> Nothing,
                  mode_absolute(s, din))
       [] mode_b(s) = ABSOLUTE_X ->
            CASE s.cycle = 1 -> ("tmp16" :> Cat16(din, Hi(s.tmp16))) @@ ("pc" :> Inc16(s.pc))
                                @@ Read(Inc16(s.pc))
              [] s.cycle = 2 -> ("pc" :> Inc16(s.pc))
                                @@ ("tmp16" :> Cat16(sum9 % 256, din + overflow))
                                @@ Read(Cat16(sum9 % 256, Hi(s.tmp16)))
              [] s.cycle = 3 -> Read(s.tmp16)
              [] s.cycle = 4 -> ("tmp8" :> din) @@ Write(s.tmp16, din)
              [] s.cycle = 5 -> AluReq(func, s.tmp8, 0, "Dout")
                                @@ ("RW" :> 0) @@ ("Addr" :> s.tmp16)
              [] s.cycle = 6 -> end_instr(s.pc)
              [] OTHER -> Nothing
       [] OTHER -> Nothing

(***************************************************************************)
(* core.py: Core.execute, the opcode switch; the first matching case wins. *)
(***************************************************************************)
Decode(op) ==
  IF op = 0 THEN "BRK"
  ELSE IF op = 64 THEN "RTI"
  ELSE IF op = 234 THEN "NOP"
  ELSE IF op \in {24, 56} THEN "CL_SE_C"
  ELSE IF op \in {216, 248} THEN "CL_SE_D"
  ELSE IF op \in {88, 120} THEN "CL_SE_I"
  ELSE IF op = 184 THEN "CLV"
  ELSE IF op \in {76, 108} THEN "JMP"
  ELSE IF op % 32 = 16 THEN "BR"
  ELSE IF op = 32 THEN "JSR"
  ELSE IF op = 96 THEN "RTS"
  ELSE IF op = 72 THEN "PHA"
  ELSE IF op = 8 THEN "PHP"
  ELSE IF op = 104 THEN "PLA"
  ELSE IF op = 40 THEN "PLP"
  ELSE IF op = 170 THEN "TAX"
  ELSE IF op = 168 THEN "TAY"
  ELSE IF op = 186 THEN "TSX"
  ELSE IF op = 138 THEN "TXA"
  ELSE IF op = 154 THEN "TXS"
  ELSE IF op = 152 THEN "TYA"
  ELSE IF op = 232 THEN "INX"
  ELSE IF op = 200 THEN "INY"
  ELSE IF op = 202 THEN "DEX"
  ELSE IF op = 136 THEN "DEY"
  ELSE IF op \in {133, 149, 141, 157, 153, 129, 145} THEN "ST"
  ELSE IF op \in {134, 150, 142} THEN "ST"
  ELSE IF op \in {132, 148, 140} THEN "ST"
  ELSE IF op \in {230, 238, 246, 254} THEN "INC"
  ELSE IF op \in {198, 206, 214, 222} THEN "DEC"
  ELSE IF op \in {10, 6, 22, 14, 30} THEN "ASL"
  ELSE IF op \in {42, 38, 54, 46, 62} THEN "ROL"
  ELSE IF op \in {74, 70, 86, 78, 94} THEN "LSR"
  ELSE IF op \in {106, 102, 118, 110, 126} THEN "ROR"
  ELSE IF op = 224 THEN "CPX_IMM"
  ELSE IF op \in {228, 236} THEN "CPX"
  ELSE IF op = 192 THEN "CPY_IMM"
  ELSE IF op \in {196, 204} THEN "CPY"
  ELSE IF op = 162 THEN "LDX_IMM"
  ELSE IF op = 160 THEN "LDY_IMM"
  ELSE IF op \in {166, 182, 174, 190} THEN "LDX"
  ELSE IF op \in {164, 180, 172, 188} THEN "LDY"
  ELSE IF op \div 32 = 5 /\ op % 4 = 1 THEN "LDA"
  ELSE IF op \div 32 = 3 /\ op % 4 = 1 THEN "ADC"
  ELSE IF op \div 32 = 7 /\ op % 4 = 1 THEN "SBC"
  ELSE IF op \div 32 = 0 /\ op % 4 = 1 THEN "ORA"
  ELSE IF op \div 32 = 1 /\ op % 4 = 1 THEN "AND"
  ELSE IF op \div 32 = 2 /\ op % 4 = 1 THEN "EOR"
  ELSE IF op \in {36, 44} THEN "BIT"
  ELSE IF op \div 32 = 6 /\ op % 4 = 1 THEN "CMP"
  ELSE "ILLEGAL"

\* the illegal opcode skips the byte after it
Default_skip(s, din) == end_instr(Inc16(s.pc))

\* the Default case of Core.execute: an illegal opcode
Default(s, din) == end_instr(s.pc)

\* the arguments Core.execute passes to the handler of each case
AluFuncOf(d) ==
  CASE d \in {"CPX_IMM", "CPX", "CPY_IMM", "CPY", "CMP"} -> "SUB"
    [] d \in {"LDX_IMM", "LDY_IMM", "LDX", "LDY", "LDA", "TAX", "TAY", "TSX", "TXA", "TYA",
              "PLA"} -> "LD"
    [] d = "TXS" -> "TR"
    [] d = "PLP" -> "LDSR"
    [] d = "BIT" -> "AND"
    [] d \in {"INX", "INY"} -> "INC"
    [] d \in {"DEX", "DEY"} -> "DEC"
    [] OTHER -> d

OutputOf(d) ==
  CASE d \in {"CPX_IMM", "CPX", "LDX_IMM", "LDX", "TAX", "TSX", "INX", "DEX"} -> "x"
    [] d \in {"CPY_IMM", "CPY", "LDY_IMM", "LDY", "TAY", "INY", "DEY"} -> "y"
    [] d = "TXS" -> "sp"
    [] d = "PLP" -> "none"
    [] OTHER -> "a"

InputOf(d) ==
  CASE d \in {"TAX", "TAY"} -> "a"
    [] d = "TSX" -> "sp"
    [] d \in {"TXA", "TXS"} -> "x"
    [] d = "TYA" -> "y"

StoreOf(d) == d \notin {"CPX_IMM", "CPX", "CPY_IMM", "CPY", "BIT", "CMP"}

XIndexOf(s, d) == IF d = "LDX" THEN s.y ELSE s.x

execute(s, din) ==
  LET d == Decode(s.instr)
  IN CASE d = "BRK" -> BRK(s, din)
       [] d = "RTI" -> RTI(s, din)
       [] d = "NOP" -> NOP(s, din)
       [] d = "CL_SE_C" -> CL_SE_C(s, din)
       [] d = "CL_SE_D" -> CL_SE_D(s, din)
       [] d = "CL_SE_I" -> CL_SE_I(s, din)
       [] d = "CLV" -> CLV(s, din)
       [] d = "JMP" -> JMP(s, din)
       [] d = "BR"  -> BR(s, din)
       [] d = "JSR" -> JSR(s, din)
       [] d = "RTS" -> RTS(s, din)
       [] d \in {"PHA", "PHP"} -> PUSH(s, din, IF d = "PHA" THEN s.a ELSE s.sr_flags)
       [] d \in {"PLA", "PLP"} -> PULL(s, din, AluFuncOf(d), OutputOf(d))
       [] d \in {"TAX", "TAY", "TSX", "TXA", "TXS", "TYA"} ->
            TR(s, din, AluFuncOf(d), InputOf(d), OutputOf(d))
       [] d \in {"INX", "INY", "DEX", "DEY"} -> INC_DEC_IND(s, din, AluFuncOf(d), OutputOf(d))
       [] d = "ST"  -> ST(s, din)
       [] d \in {"INC", "DEC", "ASL", "ROL", "LSR", "ROR"} -> ALU2(s, din, d)
       [] d \in {"CPX_IMM", "CPY_IMM", "LDX_IMM", "LDY_IMM"} ->
            ALU_IMP(s, din, AluFuncOf(d), OutputOf(d), StoreOf(d))
       [] d \in {"CPX", "CPY", "LDX", "LDY", "LDA", "ADC", "SBC", "ORA", "AND", "EOR",
                 "BIT", "CMP"} ->
            ALU(s, din, AluFuncOf(d), XIndexOf(s, d), OutputOf(d), StoreOf(d))
       [] d = "ILLEGAL" -> Default(s, din)

\* end_instr_flag_handler is added last, so it overrides pc, Addr, RW and cycle
end_instr_flag_handler(u) ==
  IF "end_instr_flag" \in DOMAIN u
  THEN ("pc" :> u["end_instr_addr"]) @@ ("Addr" :> u["end_instr_addr"])
       @@ ("RW" :> 1) @@ ("cycle" :> 0)
  ELSE Nothing

\* Core.elaborate wires src8_1, src8_2 and alu8_func into the one ALU8; the ALU's
\* flags register follows _sr_flags at every edge and the destination the handler
\* named follows alu8.
alu_wiring(s, u) ==
  IF "alu8_func" \in DOMAIN u
  THEN ("sr_flags" :> ALU8(u["alu8_func"], u["src8_1"], u["src8_2"], s.sr_flags).flags)
       @@ (IF u["alu8_dest"] = "none" THEN Nothing
           ELSE u["alu8_dest"] :>
                  ALU8(u["alu8_func"], u["src8_1"], u["src8_2"], s.sr_flags).output)
  ELSE Nothing

\* the assignments of the handlers of one ph1 edge, in the order they are added
handlers(s, din) ==
  Later(IF s.reset_state = 3
        THEN IF s.cycle = 0 THEN fetch(s, din) ELSE execute(s, din)
        ELSE Nothing,
        Later(reset_handler(s, din), "cycle" :> ((s.cycle + 1) % 16)))

elaborate_edge(s, u) ==
  Later(end_instr_flag_handler(u), Later(alu_wiring(s, u), u))

\* Core.elaborate: the next value of every register after one ph1 edge
elaborate(s, din) == elaborate_edge(s, handlers(s, din))

(***************************************************************************)
(* Bounds of the model.                                                    *)
(***************************************************************************)
\* instructions fetched in one run
MaxInstr == 1

\* instructions fetched in one run that starts at power-on
MaxBootInstr == 1

\* instructions run from the memory image of the two-instruction program
MaxImageInstr == 2

\* instructions fetched in a run of a call and what follows it
MaxCallInstr == 2

\* functions applied in a stand-alone run of the ALU
MaxAluOps == 1

\* bus cycles recorded per instruction (the recorder of formal/verification.py)
MaxRecords == 7

(***************************************************************************)
(* The processor state as a record, and one clock edge.  The memory behind *)
(* the bus is the environment: it answers a read of an address it holds    *)
(* with the byte it holds and any other read with a byte of D.             *)
(***************************************************************************)
State ==
  [a |-> a, x |-> x, y |-> y, sp |-> sp, pc |-> pc, tmp8 |-> tmp8, tmp16 |-> tmp16,
   instr |-> instr, Addr |-> Addr, Dout |-> Dout, RW |-> RW,
   reset_state |-> reset_state, cycle |-> cycle, sr_flags |-> sr_flags]

BusRead(D) == IF Addr \in DOMAIN mem THEN {mem[Addr]} ELSE D

\* the memory keeps the byte of a write cycle, and a location that was read keeps
\* the byte it answered with
MemStep(din) == IF RW = 0 THEN (Addr :> Dout) @@ mem ELSE (Addr :> din) @@ mem

preSnapshot == [sr_flags |-> sr_flags, a |-> a, x |-> x, y |-> y, sp |-> sp, pc |-> pc]

snapshot_signals(din) ==
  IF Len(cycle_records) < MaxRecords
  THEN Append(cycle_records,
              [address |-> Addr, data_in |-> din, data_out |-> Dout, rw |-> RW])
  ELSE cycle_records

Commit(n, din) ==
  /\ a' = n["a"]
  /\ x' = n["x"]
  /\ y' = n["y"]
  /\ sp' = n["sp"]
  /\ pc' = n["pc"]
  /\ tmp8' = n["tmp8"]
  /\ tmp16' = n["tmp16"]
  /\ instr' = n["instr"]
  /\ Addr' = n["Addr"]
  /\ Dout' = n["Dout"]
  /\ RW' = n["RW"]
  /\ reset_state' = n["reset_state"]
  /\ cycle' = n["cycle"]
  /\ sr_flags' = n["sr_flags"]
  /\ end_instr_flag' = IF "end_instr_flag" \in DOMAIN n THEN 1 ELSE 0
  /\ mem' = MemStep(din)

ResetEdge(D) ==
  /\ reset_state < 3
  /\ \E din \in BusRead(D) :
       /\ Commit(Later(elaborate(State, din), State), din)
       /\ UNCHANGED <<pre, cycle_records, instr_count, alu>>

FetchEdge(Ops, limit) ==
  /\ reset_state = 3
  /\ cycle = 0
  /\ instr_count < limit
  /\ \E din \in BusRead(Ops) :
       /\ Commit(Later(elaborate(State, din), State), din)
       /\ pre' = preSnapshot
       /\ cycle_records' = << >>
       /\ instr_count' = instr_count + 1
       /\ UNCHANGED alu

ExecuteEdge(D) ==
  /\ reset_state = 3
  /\ cycle # 0
  /\ \E din \in BusRead(D) :
       /\ Commit(Later(elaborate(State, din), State), din)
       /\ cycle_records' = snapshot_signals(din)
       /\ UNCHANGED <<pre, instr_count, alu>>

(***************************************************************************)
(* Power-on: the reset values of the signals; pc and instr are reset_less. *)
(***************************************************************************)
\* the ports of the ALU8 instance as a stand-alone run of alu8.py sees them: the
\* function and inputs applied at the last ph1 edge, the output they gave and
\* the flags register before that edge
AluPorts(func, input1, input2, output, flags) ==
  [func |-> func, input1 |-> input1, input2 |-> input2, output |-> output,
   sr_flags |-> flags]

PowerOnPC == {0, 4660}

PowerOnInstr == {0, 234}

NoMem == [k \in {} |-> 0]

PowerOn(image) ==
  /\ a = 0 /\ x = 0 /\ y = 0
  /\ sp = 255
  /\ pc \in PowerOnPC
  /\ tmp8 = 0 /\ tmp16 = 0
  /\ instr \in PowerOnInstr
  /\ Addr = 0 /\ Dout = 0 /\ RW = 1
  /\ reset_state = 0 /\ cycle = 0
  /\ sr_flags = 32
  /\ end_instr_flag = 0
  /\ mem = image
  /\ pre = [sr_flags |-> 32, a |-> 0, x |-> 0, y |-> 0, sp |-> 255, pc |-> pc]
  /\ cycle_records = << >>
  /\ instr_count = 0
  /\ alu = AluPorts("NONE", 0, 0, 0, sr_flags)

\* bytes the reset vector may hold
VectorBytes == {0, 128}

\* opcodes the booted program is drawn from: NOP, two illegal bytes, PLP, PLA,
\* LDY #, LDX #, TXS, PHP, SEC, RTI
BootOpcodes == {234, 2, 137, 40, 104, 160, 162, 154, 8, 56, 64}

BootBytes == {0, 207, 255}

Init == PowerOn(NoMem)

Next ==
  \/ ResetEdge(VectorBytes)
  \/ FetchEdge(BootOpcodes, MaxBootInstr)
  \/ ExecuteEdge(BootBytes)

Spec == Init /\ [][Next]_vars

(***************************************************************************)
(* An instruction boundary: the state an end-of-instruction edge leaves.   *)
(* Every value of A, X, Y, SP and the flags is reachable there (PLA,       *)
(* LDX #, LDY #, TXS, PLP) and every PC (the reset vector, JMP).           *)
(***************************************************************************)
Boundary(PCs, As, Xs, Ys, SPs, SRs, image) ==
  /\ a \in As /\ x \in Xs /\ y \in Ys
  /\ sp \in SPs
  /\ pc \in PCs
  /\ tmp8 = 0 /\ tmp16 = 0
  /\ instr = 234
  /\ Addr = pc /\ Dout = 0 /\ RW = 1
  /\ reset_state = 3 /\ cycle = 0
  /\ sr_flags \in SRs
  /\ end_instr_flag = 1
  /\ mem = image
  /\ pre = preSnapshot
  /\ cycle_records = << >>
  /\ instr_count = 0
  /\ alu = AluPorts("NONE", 0, 0, 0, sr_flags)

\* the instruction fetched last has asserted end_instr
Ended == reset_state = 3 /\ instr_count > 0 /\ cycle = 0 /\ end_instr_flag = 1

\* bus cycles of the instruction fetched last, its opcode fetch included
Cycles == Len(cycle_records) + 1

\* write cycles among the recorded bus cycles
Writes == {i \in 1..Len(cycle_records) : cycle_records[i].rw = 0}

FrameKept ==
  /\ a = pre.a /\ x = pre.x /\ y = pre.y /\ sp = pre.sp
  /\ sr_flags = pre.sr_flags

\* ---- illegal opcodes
IllegalOpcodes == {op \in 0..255 : Decode(op) = "ILLEGAL"}

InitIllegal == Boundary({32768, 65535}, {17}, {34}, {51}, {253}, {32, 227}, NoMem)

NextIllegal ==
  \/ FetchEdge(IllegalOpcodes, MaxInstr)
  \/ ExecuteEdge({0, 255})

SpecIllegal == InitIllegal /\ [][NextIllegal]_vars

\* ---- conditional branches
BranchOpcodes == {16, 48, 80, 112, 144, 176, 208, 240}

OffsetBytes == {5, 251, 128}

\* flags with C, Z, V or N alone set
InitBranch ==
  Boundary({33021, 32768, 65533, 0}, {17}, {34}, {51}, {253}, {33, 34, 96, 160}, NoMem)

NextBranch ==
  \/ FetchEdge(BranchOpcodes, MaxInstr)
  \/ ExecuteEdge(OffsetBytes)

SpecBranch == InitBranch /\ [][NextBranch]_vars

\* ---- memory read-modify-write instructions: ASL, ROL, LSR, ROR, DEC, INC with
\* the opcodes of zero-page, zero-page,X, absolute and absolute,X
RmwZp == {6, 38, 70, 102, 198, 230}

RmwZpX == {22, 54, 86, 118, 214, 246}

RmwAbs == {14, 46, 78, 110, 206, 238}

RmwAbsX == {30, 62, 94, 126, 222, 254}

RmwOpcodes == RmwZp \cup RmwZpX \cup RmwAbs \cup RmwAbsX

InitRmw == Boundary({32768}, {17}, {1, 255}, {51}, {253}, {32, 33}, NoMem)

NextRmw ==
  \/ FetchEdge(RmwOpcodes, MaxInstr)
  \/ ExecuteEdge({1, 128, 255})

SpecRmw == InitRmw /\ [][NextRmw]_vars

\* ---- loads: LDA in its eight addressing modes, ADC #, LDY abs,X and LDX abs,Y
LdaOpcodes == {161, 165, 169, 173, 177, 181, 185, 189}

LoadOpcodes == LdaOpcodes \cup {105, 188, 190}

InitLoad == Boundary({32768}, {17}, {1, 255}, {2, 255}, {253}, {32, 33}, NoMem)

NextLoad ==
  \/ FetchEdge(LoadOpcodes, MaxInstr)
  \/ ExecuteEdge({5, 128, 255})

SpecLoad == InitLoad /\ [][NextLoad]_vars

\* ---- the program LDA #$05; ADC #$03 at the reset vector 0x8000
Image ==
  (65534 :> 0) @@ (65535 :> 128) @@ (32768 :> 169) @@ (32769 :> 5)
  @@ (32770 :> 105) @@ (32771 :> 3)

\* bytes of the locations outside the image (0xFF is the fake memory's default)
ImageFill == {0, 5, 255}

InitImage == PowerOn(Image)

NextImage ==
  \/ ResetEdge(ImageFill)
  \/ FetchEdge(ImageFill, MaxImageInstr)
  \/ ExecuteEdge(ImageFill)

SpecImage == InitImage /\ [][NextImage]_vars

(***************************************************************************)
(* Properties.                                                             *)
(***************************************************************************)
Sext(d) == IF d >= 128 THEN d - 256 ELSE d

C3_IllegalOpcode ==
  (reset_state = 3 /\ instr_count > 0 /\ Decode(instr) = "ILLEGAL") =>
    /\ cycle \in {0, 1}
    /\ RW = 1
    /\ Ended =>
         /\ Cycles = 2
         /\ pc = (pre.pc + 1) % 65536
         /\ Addr = pc
         /\ FrameKept
         /\ Writes = {}

C3_Witness ==
  /\ Ended /\ instr = 2
  /\ pre.pc = 65535 /\ pc = 0
  /\ sr_flags = 227 /\ a = 17 /\ x = 34 /\ y = 51 /\ sp = 253

\* C4: bit 5 of the status register is 1 in every reachable state, PLP and RTI
\* included.
C4_Bit5AlwaysSet == Bit(sr_flags, Flag5) = 1

\* the condition the branch opcode names, on the flags before the branch
BranchTaken ==
  CASE instr = 16  -> Bit(pre.sr_flags, FlagN) = 0
    [] instr = 48  -> Bit(pre.sr_flags, FlagN) = 1
    [] instr = 80  -> Bit(pre.sr_flags, FlagV) = 0
    [] instr = 112 -> Bit(pre.sr_flags, FlagV) = 1
    [] instr = 144 -> Bit(pre.sr_flags, FlagC) = 0
    [] instr = 176 -> Bit(pre.sr_flags, FlagC) = 1
    [] instr = 208 -> Bit(pre.sr_flags, FlagZ) = 0
    [] instr = 240 -> Bit(pre.sr_flags, FlagZ) = 1
    [] OTHER -> FALSE

\* the offset byte of the branch fetched last, and the address after the branch
BranchOffset == mem[(pre.pc + 1) % 65536]

BranchNext == (pre.pc + 2) % 65536

BranchTarget == (BranchNext + Sext(BranchOffset) + 65536) % 65536

\* C7: a branch takes 2 cycles when not taken, 3 when taken within the page and
\* 4 when taken across a page.
C7_BranchCycles ==
  (Ended /\ instr \in BranchOpcodes) =>
    Cycles = IF ~BranchTaken THEN 2
             ELSE IF Hi(BranchTarget) = Hi(BranchNext) THEN 3 ELSE 4

\* C8: a branch at P with offset d leaves PC = P + 2 when its condition is false
\* and PC = (P + 2 + sign-extended d) mod 65536 when it is true, the high byte
\* moved by one on a carry or borrow of the low byte; A, X, Y, SP and the flags
\* are unchanged and no write is issued.
C8_BranchTarget ==
  (Ended /\ instr \in BranchOpcodes) =>
    /\ pc = IF BranchTaken THEN BranchTarget ELSE BranchNext
    /\ BranchTaken =>
         /\ Lo(pc) = (Lo(BranchNext) + BranchOffset) % 256
         /\ Hi(pc) = (Hi(BranchNext) + 256
                      + (IF BranchOffset < 128 /\ Lo(BranchNext) + BranchOffset > 255
                         THEN 1 ELSE 0)
                      - (IF BranchOffset >= 128 /\ Lo(BranchNext) + BranchOffset < 256
                         THEN 1 ELSE 0)) % 256
    /\ FrameKept
    /\ Writes = {}

C8_Witness ==
  /\ Ended /\ instr = 208
  /\ pre.pc = 33021 /\ BranchOffset = 5 /\ pre.sr_flags = 33
  /\ pc = 33028

\* C2: at every opcode fetch after reset the bus address equals PC and RW is
\* read, and the edge that asserts end-of-instruction loads PC, the bus address
\* and the cycle counter together.
C2_FetchAtPC ==
  /\ (reset_state = 3 /\ cycle = 0) => (Addr = pc /\ RW = 1)
  /\ (end_instr_flag = 1) => (cycle = 0 /\ Addr = pc /\ RW = 1)

\* C5: after the reset sequence and the two instructions of the image
\* (LDA #$05; ADC #$03), A = 0x08, Z = N = C = V = 0 and PC = 0x8004.
C5_LdaAdcProgram ==
  (Ended /\ instr_count = 2) =>
    /\ a = 8
    /\ Bit(sr_flags, FlagZ) = 0 /\ Bit(sr_flags, FlagN) = 0
    /\ Bit(sr_flags, FlagC) = 0 /\ Bit(sr_flags, FlagV) = 0
    /\ pc = 32772

\* the bytes after the opcode fetched last (256 stands for a byte never read)
Peek(addr) == IF addr \in DOMAIN mem THEN mem[addr] ELSE 256

Operand1 == Peek((pre.pc + 1) % 65536)

Operand2 == Peek((pre.pc + 2) % 65536)

\* C6: bits 4..2 of a cc=01 opcode select the addressing mode the opcode names:
\* LDA takes two bytes for bbb = 0, 1, 2, 4, 5 and three for bbb = 3, 6, 7; 0xA9
\* loads its operand byte, 0x69 adds it, and 0xBD reads at absolute + X.
C6_ModeRouting ==
  /\ (Ended /\ instr \in LdaOpcodes) =>
       pc = (pre.pc + (IF ((instr \div 4) % 8) \in {3, 6, 7} THEN 3 ELSE 2)) % 65536
  /\ (Ended /\ instr = 169) => (a = Operand1 /\ Cycles = 2)
  /\ (Ended /\ instr = 105) =>
       (a = (pre.a + Operand1 + Bit(pre.sr_flags, FlagC)) % 256 /\ Cycles = 2)
  /\ (Ended /\ instr = 189) =>
       /\ Len(cycle_records) >= 3
       /\ cycle_records[3].address = Cat16(Operand1 + pre.x, Operand2)

\* C9: a memory read-modify-write instruction issues exactly two write cycles,
\* both to the effective address: the first carries the byte read from it, the
\* second the modified byte.
RmwAddress ==
  CASE instr \in RmwZp   -> Operand1
    [] instr \in RmwZpX  -> (Operand1 + pre.x) % 256
    [] instr \in RmwAbs  -> Cat16(Operand1, Operand2)
    [] instr \in RmwAbsX -> (Cat16(Operand1, Operand2) + pre.x) % 65536

RmwModified(v) ==
  CASE (instr \div 32) = 0 -> (2 * v) % 256
    [] (instr \div 32) = 1 -> (2 * v + Bit(pre.sr_flags, FlagC)) % 256
    [] (instr \div 32) = 2 -> v \div 2
    [] (instr \div 32) = 3 -> (v \div 2) + 128 * Bit(pre.sr_flags, FlagC)
    [] (instr \div 32) = 6 -> (v + 255) % 256
    [] (instr \div 32) = 7 -> (v + 1) % 256

C9_RmwTwoWrites ==
  (Ended /\ instr \in RmwOpcodes) =>
    /\ Cardinality(Writes) = 2
    /\ \A i \in Writes : cycle_records[i].address = RmwAddress
    /\ \E i \in Writes :
         /\ i + 1 \in Writes
         /\ i > 1
         /\ cycle_records[i - 1].rw = 1
         /\ cycle_records[i - 1].address = RmwAddress
         /\ cycle_records[i].data_out = cycle_records[i - 1].data_in
         /\ cycle_records[i + 1].data_out = RmwModified(cycle_records[i - 1].data_in)

\* C10: a load in absolute,X or absolute,Y mode reads its operand bytes at PC+1
\* and PC+2, then reads at (high, (low + index) mod 256); without a carry it ends
\* after 4 cycles with that byte, with a carry after 5 cycles with the byte
\* re-read at (high + 1, (low + index) mod 256); PC advances by 3.
AbsIndexedLoads == {189, 185, 188, 190}

LoadIndex == IF instr \in {189, 188} THEN pre.x ELSE pre.y

Loaded == CASE instr \in {189, 185} -> a [] instr = 188 -> y [] instr = 190 -> x

C10_AbsIndexedLoad ==
  (Ended /\ instr \in AbsIndexedLoads) =>
    /\ pc = (pre.pc + 3) % 65536
    /\ Len(cycle_records) >= 3
    /\ cycle_records[1].address = (pre.pc + 1) % 65536
    /\ cycle_records[2].address = (pre.pc + 2) % 65536
    /\ cycle_records[3].address = Cat16(Operand1 + LoadIndex, Operand2)
    /\ \A i \in 1..Len(cycle_records) : cycle_records[i].rw = 1
    /\ IF Operand1 + LoadIndex < 256
       THEN Cycles = 4 /\ Loaded = cycle_records[3].data_in
       ELSE /\ Cycles = 5
            /\ cycle_records[4].address = Cat16(Operand1 + LoadIndex, Operand2 + 1)
            /\ Loaded = cycle_records[4].data_in

\* C11: a load in (zp),Y mode reads the pointer byte at PC+1, the address bytes
\* at (0, zp) and (0, (zp + 1) mod 256), then (high, (low + Y) mod 256); without
\* a carry it ends after 5 cycles with that byte, with a carry after exactly 6
\* cycles with the byte re-read at (high + 1, (low + Y) mod 256); PC advances
\* by 2.
IndYLow == Peek(Operand1 % 256)

IndYHigh == Peek((Operand1 + 1) % 256)

C11_IndirectYLoad ==
  (reset_state = 3 /\ instr_count > 0 /\ instr = 177) =>
    /\ Len(cycle_records) <= 5
    /\ Ended =>
         /\ pc = (pre.pc + 2) % 65536
         /\ Len(cycle_records) >= 4
         /\ cycle_records[1].address = (pre.pc + 1) % 65536
         /\ cycle_records[2].address = Operand1
         /\ cycle_records[3].address = (Operand1 + 1) % 256
         /\ cycle_records[4].address = Cat16(IndYLow + pre.y, IndYHigh)
         /\ IF IndYLow + pre.y < 256
            THEN Cycles = 5 /\ a = cycle_records[4].data_in
            ELSE /\ Cycles = 6
                 /\ cycle_records[5].address = Cat16(IndYLow + pre.y, IndYHigh + 1)
                 /\ a = cycle_records[5].data_in

\* ---- stores: STA, STX, STY with the opcodes of their addressing modes
StaOpcodes == {133, 149, 141, 157, 153, 129, 145}

StxOpcodes == {134, 150, 142}

StyOpcodes == {132, 148, 140}

StoreOpcodes == StaOpcodes \cup StxOpcodes \cup StyOpcodes

InitStore == Boundary({32768}, {17}, {1, 255}, {2, 255}, {253}, {32, 227}, NoMem)

NextStore ==
  \/ FetchEdge(StoreOpcodes, MaxInstr)
  \/ ExecuteEdge({5, 255})

SpecStore == InitStore /\ [][NextStore]_vars

\* C12: a store issues exactly one write cycle, to the effective address and
\* carrying the source register, and takes 3 cycles in zero-page, 4 in
\* zero-page-indexed, 4 in absolute, 5 in absolute,X / absolute,Y and 6 in
\* (zp,X) / (zp),Y mode; the absolute-indexed forms read the uncorrected address
\* on the cycle before the write; PC advances by the instruction length and A,
\* X, Y, SP and the flags are unchanged.
StoreSource ==
  CASE instr \in StaOpcodes -> pre.a
    [] instr \in StxOpcodes -> pre.x
    [] instr \in StyOpcodes -> pre.y

StoreAddress ==
  CASE instr \in {133, 134, 132} -> Operand1
    [] instr \in {149, 148} -> (Operand1 + pre.x) % 256
    [] instr = 150 -> (Operand1 + pre.y) % 256
    [] instr \in {141, 142, 140} -> Cat16(Operand1, Operand2)
    [] instr = 157 -> (Cat16(Operand1, Operand2) + pre.x) % 65536
    [] instr = 153 -> (Cat16(Operand1, Operand2) + pre.y) % 65536
    [] instr = 129 -> Cat16(Peek((Operand1 + pre.x) % 256),
                            Peek((Operand1 + pre.x + 1) % 256))
    [] instr = 145 -> (Cat16(Peek(Operand1 % 256), Peek((Operand1 + 1) % 256))
                       + pre.y) % 65536

StoreCycles ==
  CASE instr \in {133, 134, 132} -> 3
    [] instr \in {149, 148, 150, 141, 142, 140} -> 4
    [] instr \in {157, 153} -> 5
    [] instr \in {129, 145} -> 6

StoreLength == IF instr \in {141, 142, 140, 157, 153} THEN 3 ELSE 2

C12_StoreOneWrite ==
  (reset_state = 3 /\ instr_count > 0 /\ instr \in StoreOpcodes) =>
    /\ Len(cycle_records) <= 5
    /\ Ended =>
         /\ Cycles = StoreCycles
         /\ Cardinality(Writes) = 1
         /\ \A i \in Writes :
              /\ cycle_records[i].address = StoreAddress
              /\ cycle_records[i].data_out = StoreSource
              /\ (instr \in {157, 153}) =>
                   /\ i > 1
                   /\ cycle_records[i - 1].rw = 1
                   /\ cycle_records[i - 1].address =
                        Cat16(Operand1 + (IF instr = 157 THEN pre.x ELSE pre.y), Operand2)
         /\ pc = (pre.pc + StoreLength) % 65536
         /\ FrameKept

\* ---- control flow: BRK, JSR, RTI, JMP, RTS, JMP ()
FlowOpcodes == {0, 32, 64, 76, 96, 108}

InitFlow == Boundary({32768}, {17}, {34}, {51}, {1, 254}, {32, 195}, NoMem)

NextFlow ==
  \/ FetchEdge(FlowOpcodes, MaxInstr)
  \/ ExecuteEdge({52, 255})

SpecFlow == InitFlow /\ [][NextFlow]_vars

\* C13: JMP absolute takes 3 cycles and sets PC to the operand (low byte at
\* PC+1, high byte at PC+2); JMP indirect takes 5 cycles and sets PC to the low
\* byte read at the pointer and the high byte read at (pointer high, (pointer
\* low + 1) mod 256), so a pointer ending in 0xFF takes the high byte from the
\* start of the same page; flags, A, X, Y and SP are unchanged.
JmpPointer == Cat16(Operand1, Operand2)

C14_FiveCycles ==
  (Ended /\ instr \in {32, 96, 64}) => Cycles = 5

\* C14 (amended): counted from the opcode-fetch edge through the edge that
\* asserts end-of-instruction, JSR, RTS and RTI take 6 cycles each.
C14_SixCycles ==
  (reset_state = 3 /\ instr_count > 0 /\ instr \in {32, 96, 64}) =>
    /\ Len(cycle_records) <= 5
    /\ Ended => Cycles = 6

C14_Witness == Ended /\ instr = 64 /\ Cycles = 6 /\ pre.sp = 254 /\ sp = 1

\* C15: RTS takes 6 cycles with the bus reads PC+1, 0x0100|SP, 0x0100|((SP+1)
\* mod 256), 0x0100|((SP+2) mod 256); PC becomes exactly the value whose low
\* byte was read at SP+1 and high byte at SP+2, SP becomes (SP + 2) mod 256, and
\* A, X, Y and every flag are unchanged.
C15_Rts ==
  (reset_state = 3 /\ instr_count > 0 /\ instr = 96) =>
    /\ Len(cycle_records) <= 5
    /\ Ended =>
         /\ Cycles = 6
         /\ Writes = {}
         /\ cycle_records[1].address = (pre.pc + 1) % 65536
         /\ cycle_records[2].address = Stack(pre.sp)
         /\ cycle_records[3].address = Stack(pre.sp + 1)
         /\ cycle_records[4].address = Stack(pre.sp + 2)
         /\ pc = Cat16(cycle_records[3].data_in, cycle_records[4].data_in)
         /\ sp = (pre.sp + 2) % 256
         /\ a = pre.a /\ x = pre.x /\ y = pre.y
         /\ sr_flags = pre.sr_flags

C15_Witness ==
  /\ Ended /\ instr = 96 /\ pre.sp = 254 /\ sp = 0
  /\ cycle_records[3].address = 511 /\ cycle_records[3].data_in = 255
  /\ cycle_records[4].address = 256 /\ cycle_records[4].data_in = 52
  /\ pc = 13567

\* ---- a subroutine call and the instruction that follows it
CallOpcodes == {32, 96}

InitCall == Boundary({32768}, {17}, {34}, {51}, {0, 253}, {32, 195}, NoMem)

NextCall ==
  \/ FetchEdge(CallOpcodes, MaxCallInstr)
  \/ ExecuteEdge({52, 255})

SpecCall == InitCall /\ [][NextCall]_vars

\* C16: JSR writes the high byte of the return address (the address of its last
\* byte) to 0x0100|SP and then the low byte to 0x0100|((SP-1) mod 256), leaves
\* SP decreased by 2 and continues fetching at its 16-bit operand; the low byte
\* is on top of the stack, and an RTS that follows reads low then high.
ReturnAddress == (pre.pc + 2) % 65536

C16_Jsr ==
  /\ (reset_state = 3 /\ instr_count > 0 /\ instr = 32) =>
       /\ Len(cycle_records) <= 5
       /\ Ended =>
            /\ cycle_records[1].address = (pre.pc + 1) % 65536
            /\ cycle_records[2].address = ReturnAddress
            /\ Writes = {4, 5}
            /\ cycle_records[4].address = Stack(pre.sp)
            /\ cycle_records[4].data_out = Hi(ReturnAddress)
            /\ cycle_records[5].address = Stack(pre.sp + 255)
            /\ cycle_records[5].data_out = Lo(ReturnAddress)
            /\ sp = (pre.sp + 254) % 256
            /\ Peek(Stack(sp + 1)) = Lo(ReturnAddress)
            /\ Peek(Stack(sp + 2)) = Hi(ReturnAddress)
            /\ pc = Cat16(cycle_records[1].data_in, cycle_records[2].data_in)
            /\ Addr = pc
  /\ (Ended /\ instr = 96 /\ instr_count = 2 /\ Peek(32768) = 32) =>
       /\ cycle_records[3].data_in = Lo(32770)
       /\ cycle_records[4].data_in = Hi(32770)
       /\ pc = 32770

C16_Witness ==
  /\ Ended /\ instr = 96 /\ instr_count = 2 /\ Peek(32768) = 32
  /\ pre.sp = 254 /\ sp = 0
  /\ cycle_records[3].address = 511 /\ cycle_records[3].data_in = 2
  /\ cycle_records[4].address = 256 /\ cycle_records[4].data_in = 128

\* C17: BRK takes 7 cycles: it writes PCH to 0x0100|SP, PCL to 0x0100|((SP-1)
\* mod 256) and the status byte with bits 4 and 5 forced to 1 to 0x0100|((SP-2)
\* mod 256), in that order, then reads 0xFFFE and 0xFFFF and sets PC to the
\* value read (low byte from 0xFFFE); SP ends decreased by 3 and the live
\* flags, A, X and Y are unchanged.
C17_Brk ==
  (reset_state = 3 /\ instr_count > 0 /\ instr = 0) =>
    /\ Len(cycle_records) <= 6
    /\ Ended =>
         /\ Cycles = 7
         /\ Writes = {2, 3, 4}
         /\ cycle_records[2].address = Stack(pre.sp)
         /\ cycle_records[2].data_out = Hi(ReturnAddress)
         /\ cycle_records[3].address = Stack(pre.sp + 255)
         /\ cycle_records[3].data_out = Lo(ReturnAddress)
         /\ cycle_records[4].address = Stack(pre.sp + 254)
         /\ cycle_records[4].data_out = SetBit(SetBit(pre.sr_flags, 4, 1), 5, 1)
         /\ cycle_records[5].address = 65534
         /\ cycle_records[6].address = 65535
         /\ pc = Cat16(cycle_records[5].data_in, cycle_records[6].data_in)
         /\ sp = (pre.sp + 253) % 256
         /\ a = pre.a /\ x = pre.x /\ y = pre.y
         /\ sr_flags = pre.sr_flags

C17_Witness ==
  /\ Ended /\ instr = 0 /\ pre.sr_flags = 195 /\ pre.sp = 1 /\ sp = 254
  /\ cycle_records[3].address = 256
  /\ cycle_records[4].address = 511 /\ cycle_records[4].data_out = 243
  /\ pc = 13567

StackOpcodes == {72, 8, 104, 40}

InitStack == Boundary({32768}, {17, 128}, {34}, {51}, {0, 255}, {32, 227}, NoMem)

NextStack ==
  \/ FetchEdge(StackOpcodes, MaxInstr)
  \/ ExecuteEdge({0, 95, 128})

SpecStack == InitStack /\ [][NextStack]_vars

\* C19: PHA/PHP take 3 cycles, issue one write of A (PHA) or of the status
\* register exactly as held (PHP) to 0x0100|SP and leave SP decreased by 1;
\* PLA/PLP take 4 cycles, read from 0x0100|((SP+1) mod 256) and leave SP
\* increased by 1, PLA loading A and setting N/Z from the value, PLP replacing
\* N, V, B, D, I, Z, C with the bits of the value; in all four PC advances by 1
\* and every other register is unchanged.
NZFrom(flags, v) == SetBit(SetBit(flags, 7, Bit(v, 7)), 1, IF v = 0 THEN 1 ELSE 0)

TransferOpcodes == {170, 168, 186, 138, 154, 152}

IndexStepOpcodes == {232, 200, 202, 136}

InitTransfer ==
  Boundary({32768, 65535}, {0, 128}, {0, 255}, {1, 127}, {2, 253}, {32, 227}, NoMem)

NextTransfer ==
  \/ FetchEdge(TransferOpcodes \cup IndexStepOpcodes, MaxInstr)
  \/ ExecuteEdge({0, 255})

SpecTransfer == InitTransfer /\ [][NextTransfer]_vars

\* C20: TAX, TAY, TSX, TXA, TXS, TYA, INX, INY, DEX and DEY each take exactly
\* 2 cycles, issue no write, advance PC by 1 and change only the destination
\* register (copy of the source, or the register plus/minus 1 mod 256) and the
\* N/Z flags computed from the new value; TXS changes SP and no flag.
TransferDest ==
  CASE instr \in {170, 186, 232, 202} -> "x"
    [] instr \in {168, 200, 136} -> "y"
    [] instr \in {138, 152} -> "a"
    [] instr = 154 -> "sp"

TransferValue ==
  CASE instr \in {170, 168} -> pre.a
    [] instr = 186 -> pre.sp
    [] instr \in {138, 154} -> pre.x
    [] instr = 152 -> pre.y
    [] instr = 232 -> (pre.x + 1) % 256
    [] instr = 200 -> (pre.y + 1) % 256
    [] instr = 202 -> (pre.x + 255) % 256
    [] instr = 136 -> (pre.y + 255) % 256

C20_Transfers ==
  (reset_state = 3 /\ instr_count > 0
     /\ instr \in TransferOpcodes \cup IndexStepOpcodes) =>
    /\ Len(cycle_records) <= 1
    /\ Ended =>
         /\ Cycles = 2
         /\ Writes = {}
         /\ pc = (pre.pc + 1) % 65536
         /\ [a |-> a, x |-> x, y |-> y, sp |-> sp] =
              [[a |-> pre.a, x |-> pre.x, y |-> pre.y, sp |-> pre.sp]
                 EXCEPT ![TransferDest] = TransferValue]
         /\ sr_flags = IF instr = 154 THEN pre.sr_flags
                       ELSE NZFrom(pre.sr_flags, TransferValue)

C20_Witness ==
  /\ Ended /\ instr = 232 /\ pre.x = 255 /\ x = 0 /\ pre.sr_flags = 227
  /\ sr_flags = 99 /\ Cycles = 2

\* ---- flag instructions: CLC, SEC, CLI, SEI, CLV, CLD, SED
FlagOpcodes == {24, 56, 88, 120, 184, 216, 248}

InitFlag == Boundary({32768, 65535}, {17}, {34}, {51}, {2, 253}, {32, 207, 255}, NoMem)

NextFlag ==
  \/ FetchEdge(FlagOpcodes, MaxInstr)
  \/ ExecuteEdge({0, 255})

SpecFlag == InitFlag /\ [][NextFlag]_vars

\* C21: CLC, SEC, CLD, SED, CLI, SEI and CLV each set only their named flag to
\* the named value (C, D, I to 0 or 1; V to 0), leave every other flag and A, X,
\* Y, SP unchanged, advance PC by 1 and issue no write.
NamedFlag ==
  CASE instr \in {24, 56} -> 0
    [] instr \in {88, 120} -> 2
    [] instr \in {216, 248} -> 3
    [] instr = 184 -> 6

NamedValue == IF instr \in {56, 120, 248} THEN 1 ELSE 0

AluStart(In1, In2, SRs) ==
  /\ a = 0 /\ x = 0 /\ y = 0
  /\ sp = 255
  /\ pc = 0
  /\ tmp8 = 0 /\ tmp16 = 0
  /\ instr = 234
  /\ Addr = 0 /\ Dout = 0 /\ RW = 1
  /\ reset_state = 0 /\ cycle = 0
  /\ sr_flags \in SRs
  /\ end_instr_flag = 0
  /\ mem = NoMem
  /\ pre = preSnapshot
  /\ cycle_records = << >>
  /\ instr_count = 0
  /\ \E input1 \in In1, input2 \in In2 :
       alu = AluPorts("NONE", input1, input2, 0, sr_flags)

AluEdge(Funcs, limit) ==
  /\ instr_count < limit
  /\ \E func \in Funcs :
       LET r == ALU8(func, alu.input1, alu.input2, sr_flags)
       IN /\ alu' = AluPorts(func, alu.input1, alu.input2, r.output, sr_flags)
          /\ sr_flags' = r.flags
  /\ instr_count' = instr_count + 1
  /\ UNCHANGED <<a, x, y, sp, pc, tmp8, tmp16, instr, Addr, Dout, RW,
                 reset_state, cycle, end_instr_flag, mem, pre, cycle_records>>

\* a function has been applied to the held inputs
Applied(func) == instr_count > 0 /\ alu.func = func

\* ---- ADC and SBC: on every pair of 8-bit inputs in binary mode, and on every
\* pair of two-digit BCD inputs in decimal mode
InitAluArith ==
  \/ AluStart({v \in 0..255 : v % 16 < 10 /\ v \div 16 < 10},
              {v \in 0..255 : v % 16 < 10 /\ v \div 16 < 10}, {40, 41})
  \/ AluStart(0..255, 0..255, {33, 246})

NextAluArith == AluEdge({"ADC", "SBC"}, MaxAluOps)

SpecAluArith == InitAluArith /\ [][NextAluArith]_vars

\* C22: with D = 0, ADC returns (input1 + input2 + C_in) mod 256 for all 8-bit
\* inputs, with C_out = bit 8 of that 9-bit sum, Z = (result = 0), N = bit 7 of
\* the result and V = (carry into bit 7) XOR (carry out of bit 7); the sign-XOR
\* overflow formula input1[7] XOR input2[7] XOR C_out XOR result[7] agrees with
\* that carry-chain formula; I is unchanged.
CarryIn == Bit(alu.sr_flags, 0)

BinaryMode == Bit(alu.sr_flags, 3) = 0

Sum9 == alu.input1 + alu.input2 + CarryIn

\* the carry into bit 7: bit 7 of the sum of the low seven bits
Sum8 == (alu.input1 % 128) + (alu.input2 % 128) + CarryIn

C22_AdcBinary ==
  (Applied("ADC") /\ BinaryMode) =>
    /\ alu.output = Sum9 % 256
    /\ Bit(sr_flags, 0) = Bit(Sum9, 8)
    /\ Bit(sr_flags, 1) = (IF alu.output = 0 THEN 1 ELSE 0)
    /\ Bit(sr_flags, 7) = Bit(alu.output, 7)
    /\ Bit(sr_flags, 6) = Xor(Bit(Sum8, 7), Bit(Sum9, 8))
    /\ Xor(Bit(Sum8, 7), Bit(Sum9, 8)) =
         Xor(Xor(Bit(alu.input1, 7), Bit(alu.input2, 7)),
             Xor(Bit(Sum9, 8), Bit(Sum9, 7)))
    /\ Bit(sr_flags, 2) = Bit(alu.sr_flags, 2)

C22_Witness ==
  /\ Applied("ADC") /\ BinaryMode
  /\ alu.input1 = 127 /\ alu.input2 = 1 /\ alu.sr_flags = 246
  /\ alu.output = 128 /\ sr_flags = 244

\* C23: with D = 0, SBC returns (input1 + (input2 XOR 0xFF) + C_in) mod 256 for
\* all 8-bit inputs, with C_out = the carry out of bit 7 of that sum (1 means no
\* borrow), Z and N from the result, and V = input1[7] XOR NOT input2[7] XOR
\* C_out XOR result[7].
Diff9 == alu.input1 + (255 - alu.input2) + CarryIn

C24_SbcBorrowIn ==
  (Applied("SBC") /\ BinaryMode) =>
    /\ alu.output = (alu.input1 + 512 - alu.input2 - CarryIn) % 256
    /\ Bit(sr_flags, 0) = (IF alu.input1 < alu.input2 + CarryIn THEN 1 ELSE 0)
    /\ Bit(sr_flags, 1) = (IF alu.output = 0 THEN 1 ELSE 0)
    /\ Bit(sr_flags, 7) = Bit(alu.output, 7)

\* C25 (as stated): for all 8-bit a, b and carry_in with D = 0, if
\* ADC(a, b, carry_in) gives (result, new_carry) then SBC(result, b, new_carry)
\* returns a.
C25_RoundTripNewCarry ==
  (Applied("ADC") /\ BinaryMode) =>
    ALU8("SBC", alu.output, alu.input2, sr_flags).output = alu.input1

\* C25 (amended): for all 8-bit a, b and carry_in with D = 0, if
\* ADC(a, b, carry_in) gives result then SBC(result, b, NOT carry_in) returns a.
C25_RoundTripInverseCarry ==
  (Applied("ADC") /\ BinaryMode) =>
    ALU8("SBC", alu.output, alu.input2, SetBit(sr_flags, 0, 1 - CarryIn)).output
      = alu.input1

C25_Witness ==
  /\ Applied("ADC") /\ BinaryMode
  /\ alu.input1 = 200 /\ alu.input2 = 100 /\ CarryIn = 1 /\ alu.output = 45
  /\ Bit(sr_flags, 0) = 1
  /\ ALU8("SBC", 45, 100, SetBit(sr_flags, 0, 0)).output = 200

\* C26: with D = 1, for all operands whose two nibbles are each in 0..9 and every
\* C_in, ADC returns the BCD encoding of (dec(input1) + dec(input2) + C_in) mod
\* 100 and sets C_out exactly when that decimal sum is at least 100; 0x19 + 0x01
\* with C_in = 0 gives 0x20 with C = 0, and 0x99 + 0x01 gives 0x00 with C = 1.
BcdValid(v) == v % 16 < 10 /\ v \div 16 < 10

BcdDecode(v) == 10 * (v \div 16) + (v % 16)

BcdEncode(n) == 16 * (n \div 10) + (n % 10)

DecimalSum == BcdDecode(alu.input1) + BcdDecode(alu.input2) + CarryIn

ALU8Func ==
  {"NONE", "LD", "ADC", "SBC", "SUB", "ORA", "AND", "EOR", "CLC", "SEC", "CLD",
   "SED", "CLI", "SEI", "CLV", "INC", "DEC", "ASL", "LSR", "ROL", "ROR", "TR", "LDSR"}

InitAluAll == AluStart(0..255, {0, 85, 255}, {32, 223})

NextAluAll == AluEdge(ALU8Func, MaxAluOps)

SpecAluAll == InitAluAll /\ [][NextAluAll]_vars

\* C27: the compare function (ALU SUB) computes input1 - input2 with no carry-in
\* and sets C exactly when input1 >= input2 (unsigned), Z exactly when input1 =
\* input2 and N to bit 7 of (input1 - input2) mod 256, leaving V, D, I and B
\* unchanged.
Difference == (alu.input1 + 256 - alu.input2) % 256

C27_CompareCarry ==
  Applied("SUB") =>
    /\ alu.output = Difference
    /\ Bit(sr_flags, 0) = (IF alu.input1 >= alu.input2 THEN 1 ELSE 0)
    /\ Bit(sr_flags, 1) = (IF alu.input1 = alu.input2 THEN 1 ELSE 0)
    /\ Bit(sr_flags, 7) = Bit(Difference, 7)
    /\ \A i \in {6, 4, 3, 2} : Bit(sr_flags, i) = Bit(alu.sr_flags, i)

\* ---- compares: CMP in its eight addressing modes, CPX and CPY in their three
CompareOpcodes == {201, 197, 213, 205, 221, 217, 193, 209, 224, 228, 236, 192, 196, 204}

InitCompare == Boundary({32768}, {5, 128}, {1, 5}, {2, 255}, {253}, {32, 227}, NoMem)

NextCompare ==
  \/ FetchEdge(CompareOpcodes, MaxInstr)
  \/ ExecuteEdge({5, 128, 255})

SpecCompare == InitCompare /\ [][NextCompare]_vars

\* C28: after CMP, CPX or CPY the carry flag is 1 exactly when the register is
\* unsigned-less-than the operand, Z is 1 exactly when they are equal, N is bit
\* 7 of (register - operand) mod 256, and A, X, Y, SP are unchanged with PC
\* advanced by the instruction length.
CompareRegister ==
  CASE instr \in {224, 228, 236} -> pre.x
    [] instr \in {192, 196, 204} -> pre.y
    [] OTHER -> pre.a

CompareAbsolute == Cat16(Operand1, Operand2)

CompareOperand ==
  CASE instr \in {201, 224, 192} -> Operand1
    [] instr \in {197, 228, 196} -> Peek(Operand1 % 256)
    [] instr = 213 -> Peek((Operand1 + pre.x) % 256)
    [] instr \in {205, 236, 204} -> Peek(CompareAbsolute)
    [] instr = 221 -> Peek((CompareAbsolute + pre.x) % 65536)
    [] instr = 217 -> Peek((CompareAbsolute + pre.y) % 65536)
    [] instr = 193 -> Peek(Cat16(Peek((Operand1 + pre.x) % 256),
                                 Peek((Operand1 + pre.x + 1) % 256)))
    [] instr = 209 -> Peek((Cat16(Peek(Operand1 % 256), Peek((Operand1 + 1) % 256))
                            + pre.y) % 65536)

CompareLength == IF instr \in {205, 221, 217, 236, 204} THEN 3 ELSE 2

CompareRouted == {197, 205, 224, 228, 236, 192, 196, 204}

CompareHolds ==
  /\ Bit(sr_flags, 0) = (IF CompareRegister < CompareOperand THEN 1 ELSE 0)
  /\ Bit(sr_flags, 1) = (IF CompareRegister = CompareOperand THEN 1 ELSE 0)
  /\ Bit(sr_flags, 7) = Bit((CompareRegister + 512 - CompareOperand) % 256, 7)
  /\ a = pre.a /\ x = pre.x /\ y = pre.y /\ sp = pre.sp
  /\ pc = (pre.pc + CompareLength) % 65536

C28_CompareInstructions ==
  (Ended /\ instr \in CompareOpcodes) => CompareHolds

\* the opcodes whose mode bits the table of consts.py routes as the 6502 does
C28_RoutedCompares ==
  (Ended /\ instr \in CompareRouted) => CompareHolds

\* C29: for every 8-bit input and incoming carry: ASL gives input<<1 with bit 0
\* = 0 and C = input bit 7; LSR gives input>>1 with bit 7 = 0, C = input bit 0
\* and N = 0; ROL gives input<<1 with bit 0 = incoming C and C = input bit 7;
\* ROR gives input>>1 with bit 7 = incoming C, C = input bit 0 and N = incoming
\* C; in all four Z = (output = 0), N = bit 7 of the output, and V, D, I, B are
\* unchanged.
ShiftFuncs == {"ASL", "LSR", "ROL", "ROR"}

ShiftedIn ==
  CASE alu.func \in {"ASL", "LSR"} -> 0
    [] alu.func \in {"ROL", "ROR"} -> CarryIn

ShiftExpected ==
  IF alu.func \in {"ASL", "ROL"}
  THEN [output |-> ((2 * alu.input1) % 256) + ShiftedIn, carry |-> Bit(alu.input1, 7)]
  ELSE [output |-> (alu.input1 \div 2) + 128 * ShiftedIn, carry |-> Bit(alu.input1, 0)]

DocumentedFlags(func) ==
  CASE func \in {"NONE", "TR"} -> {}
    [] func \in {"LD", "ORA", "AND", "EOR", "INC", "DEC"} -> {FlagN, FlagZ}
    [] func \in {"ASL", "LSR", "ROL", "ROR", "SUB"} -> {FlagN, FlagZ, FlagC}
    [] func \in {"ADC", "SBC"} -> {FlagN, FlagV, FlagZ, FlagC}
    [] func \in {"CLC", "SEC"} -> {FlagC}
    [] func \in {"CLD", "SED"} -> {FlagD}
    [] func \in {"CLI", "SEI"} -> {FlagI}
    [] func = "CLV" -> {FlagV}
    [] func = "LDSR" -> 0..7

ChangedFlags == {i \in 0..7 : Bit(sr_flags, i) # Bit(alu.sr_flags, i)}

C30_DocumentedFlagsOnly ==
  instr_count > 0 =>
    /\ ChangedFlags \subseteq DocumentedFlags(alu.func)
    /\ (FlagB \in ChangedFlags) => alu.func = "LDSR"
    /\ (FlagD \in ChangedFlags) => alu.func \in {"LDSR", "CLD", "SED"}
    /\ (FlagI \in ChangedFlags) => alu.func \in {"LDSR", "CLI", "SEI"}

C30_Witness ==
  /\ Applied("AND") /\ alu.input1 = 170 /\ alu.input2 = 85 /\ alu.sr_flags = 223
  /\ alu.output = 0 /\ sr_flags = 95

\* C40: with D = 1, for all operands whose two nibbles are each in 0..9 and
\* every C_in, SBC returns the BCD encoding of (dec(input1) - dec(input2) -
\* (1 - C_in)) mod 100, each output nibble in 0..9, and sets C_out to 1 exactly
\* when no decimal borrow occurred; 0x20 - 0x01 with C_in = 1 gives 0x19 with
\* C = 1.
DecimalDifference == BcdDecode(alu.input1) - BcdDecode(alu.input2) - (1 - CarryIn)

C40_SbcDecimal ==
  (Applied("SBC") /\ ~BinaryMode /\ BcdValid(alu.input1) /\ BcdValid(alu.input2)) =>
    /\ alu.output = BcdEncode((DecimalDifference + 100) % 100)
    /\ BcdValid(alu.output)
    /\ Bit(sr_flags, 0) = (IF DecimalDifference >= 0 THEN 1 ELSE 0)

\* C31: for every load/ALU read instruction in every addressing mode, the
\* destination register and the status flags are written exactly once, on the
\* cycle that ends the instruction, using the operand read from the final
\* (page-corrected) effective address; a speculative read from an uncorrected
\* address never changes the register or the flags: an edge of such an
\* instruction that does not assert end_instr leaves A, X, Y and the flags as
\* they were.
C31_WrittenOnceAtEnd ==
  [][(reset_state = 3 /\ cycle # 0 /\ instr \in LoadOpcodes /\ end_instr_flag' = 0)
       => (a' = a /\ x' = x /\ y' = y /\ sr_flags' = sr_flags)]_vars

\* C32: every memory read-modify-write instruction leaves A, X, Y and SP
\* unchanged and leaves PC advanced by the instruction length: opcode address + 2
\* for the zero-page and zero-page,X forms and opcode address + 3 for the
\* absolute and absolute,X forms; the accumulator forms (0x0A, 0x2A, 0x4A, 0x6A)
\* change only A and flags and advance PC by 1.
RmwAccumulator == {10, 42, 74, 106}

RmwLength == IF instr \in RmwZp \cup RmwZpX THEN 2 ELSE 3

\* the instruction fetched last is over: the edge to come fetches an opcode
NextFetch == reset_state = 3 /\ instr_count > 0 /\ cycle = 0

C32_RmwFrame ==
  /\ (NextFetch /\ instr \in RmwOpcodes) =>
       /\ a = pre.a /\ x = pre.x /\ y = pre.y /\ sp = pre.sp
       /\ pc = (pre.pc + RmwLength) % 65536
  /\ (NextFetch /\ instr \in RmwAccumulator) =>
       /\ x = pre.x /\ y = pre.y /\ sp = pre.sp
       /\ pc = (pre.pc + 1) % 65536

\* C33: load/ALU/compare read instructions take exactly 2 cycles in immediate
\* mode, 3 in zero-page, 4 in zero-page-indexed, 4 in absolute and 6 in
\* indexed-indirect (zp,X) mode, counted from the opcode fetch through the
\* end-of-instruction edge, and leave PC at opcode address + 2, + 2, + 2, + 3
\* and + 2 respectively (here for LDA and ADC #).
ReadCycles ==
  CASE instr \in {169, 105} -> 2
    [] instr = 165 -> 3
    [] instr = 181 -> 4
    [] instr = 173 -> 4
    [] instr = 161 -> 6

C33_ReadCycles ==
  (Ended /\ instr \in {169, 105, 165, 181, 173, 161}) =>
    /\ Cycles = ReadCycles
    /\ pc = (pre.pc + (IF instr = 173 THEN 3 ELSE 2)) % 65536

\* C34: all zero-page address arithmetic wraps mod 256 with the high address
\* byte 0x00: a zero-page-indexed access goes to (0x00, (operand + index) mod
\* 256), the (zp,X) pointer bytes are read from (0x00, (operand + X) mod 256)
\* and (0x00, (operand + X + 1) mod 256), and the (zp),Y pointer high byte is
\* read from (0x00, (operand + 1) mod 256); no extra cycle is spent when the sum
\* exceeds 0xFF (here for LDA zp,X, LDA (zp,X) and LDA (zp),Y).
C34_ZeroPageWrap ==
  /\ (Ended /\ instr = 181) =>
       /\ Cycles = 4
       /\ cycle_records[3].address = (Operand1 + pre.x) % 256
       /\ a = cycle_records[3].data_in
  /\ (Ended /\ instr = 161) =>
       /\ Cycles = 6
       /\ cycle_records[2].address = (Operand1 + pre.x) % 256
       /\ cycle_records[3].address = (Operand1 + pre.x + 1) % 256
  /\ (reset_state = 3 /\ instr_count > 0 /\ instr = 177 /\ Len(cycle_records) >= 3) =>
       cycle_records[3].address = (Operand1 + 1) % 256

\* C35: after reset completes, for every opcode, every register state and every
\* memory content, each instruction asserts end-of-instruction within at most 7
\* cycles of its opcode fetch; the 4-bit instruction-cycle counter never reaches
\* 0 by wrapping around from 15, so cycle 0 is only ever entered through
\* end-of-instruction.
C35_EndsWithinSeven ==
  reset_state = 3 =>
    /\ cycle <= 7
    /\ cycle = 0 => end_instr_flag = 1


\* ---- every opcode byte, from power-on and from an instruction boundary with an
\* index that carries into the next page and both values of the branch flags
InitAny ==
  \/ PowerOn(NoMem)
  \/ Boundary({32768}, {17}, {1}, {255}, {253}, {32, 227}, NoMem)

NextAny ==
  \/ ResetEdge(VectorBytes)
  \/ FetchEdge(0..255, MaxInstr)
  \/ ExecuteEdge({5, 255})

SpecAny == InitAny /\ [][NextAny]_vars

\* C36: RW is driven low (write) only during store (STA/STX/STY), push
\* (PHA/PHP), JSR, BRK and memory read-modify-write instructions; during reset,
\* during every opcode fetch and during every load, ALU, compare, BIT, branch,
\* jump, transfer, flag, pull, RTS, RTI, NOP and illegal instruction, RW stays
\* high on every cycle.
WriteOpcodes == StoreOpcodes \cup {72, 8, 32, 0} \cup RmwOpcodes

C36_WriteOnlyWhenStoring ==
  RW = 0 => (reset_state = 3 /\ cycle # 0 /\ instr \in WriteOpcodes)

\* C37: with a memory that retains written bytes, a JSR at address P followed by
\* an RTS as the first instruction of the subroutine restores SP to its value
\* before the JSR and resumes execution at the instruction following the 3-byte
\* JSR: the next opcode is fetched from P + 3 (here P = 0x8000; the JSR left SP
\* two below its value and its first push at 0x0100 | SP).
C37_JsrRts ==
  (Ended /\ instr = 96 /\ instr_count = 2 /\ Peek(32768) = 32) =>
    /\ sp = (pre.sp + 2) % 256
    /\ Peek(Stack(sp)) = Hi(32770)
    /\ pc = 32771
    /\ Addr = 32771


\* ---- a push and the pull that undoes it: BRK then RTI, PHA then PLA, over a
\* memory that keeps the bytes written; the byte after a PHA, which the PHA reads
\* and discards, may be the opcode of PLA
RoundTripOpcodes == {0, 64, 72, 104}

InitRoundTrip ==
  Boundary({32768}, {17, 128}, {34}, {51}, {0, 253}, {32, 195}, NoMem)

NextRoundTrip ==
  \/ FetchEdge(RoundTripOpcodes, MaxCallInstr)
  \/ ExecuteEdge({52, 104})

SpecRoundTrip == InitRoundTrip /\ [][NextRoundTrip]_vars

\* C38: with a memory that retains written bytes, a BRK at address P followed by
\* an RTI as the first instruction of the handler restores SP and every bit of
\* the status register (N, V, B, D, I, Z, C) to their values before the BRK and
\* resumes fetching at P + 2: RTI reads back exactly the three bytes BRK pushed,
\* from the addresses BRK wrote them to (here P = 0x8000; BRK itself leaves the
\* flags as they were and SP three below its value).
C38_BrkRti ==
  /\ (Ended /\ instr = 0 /\ instr_count = 1) =>
       /\ sr_flags = pre.sr_flags
       /\ sp = (pre.sp + 253) % 256
  /\ (Ended /\ instr = 64 /\ instr_count = 2 /\ Peek(32768) = 0) =>
       /\ sp = (pre.sp + 3) % 256
       /\ \A i \in {FlagN, FlagV, FlagB, FlagD, FlagI, FlagZ, FlagC} :
            Bit(sr_flags, i) = Bit(pre.sr_flags, i)
       /\ pc = 32770
       /\ Addr = 32770
       /\ cycle_records[3].address = Stack(pre.sp + 1)
       /\ cycle_records[4].data_in = Lo(32770)
       /\ cycle_records[5].data_in = Hi(32770)

\* C39: with a memory that retains written bytes, PHA followed by PLA leaves A
\* and SP equal to their values before the PHA for every SP value, including
\* SP = 0x00 where the push wraps SP to 0xFF: PLA reads the same page-1 address
\* (0x0100|SP) that PHA wrote (here PHA is at 0x8000; PHA itself leaves A as it
\* was and SP one below its value).
C39_PhaPla ==
  /\ (Ended /\ instr = 72 /\ instr_count = 1) =>
       /\ a = pre.a
       /\ sp = (pre.sp + 255) % 256
       /\ Writes = {2}
       /\ cycle_records[2].address = Stack(pre.sp)
       /\ cycle_records[2].data_out = pre.a
  /\ (Ended /\ instr = 104 /\ instr_count = 2 /\ Peek(32768) = 72) =>
       /\ a = pre.a
       /\ sp = (pre.sp + 1) % 256
       /\ cycle_records[3].address = Stack(sp)
       /\ cycle_records[3].data_in = pre.a
       /\ Peek(Stack(sp)) = a

C39_Witness ==
  /\ Ended /\ instr = 104 /\ instr_count = 2 /\ Peek(32768) = 72
  /\ pre.sp = 255 /\ sp = 0 /\ pre.a = 128 /\ a = 128
  /\ cycle_records[3].address = 256 /\ cycle_records[3].data_in = 128

====
